---- MODULE Spec2Model ----
(***************************************************************************)
(* Sandbox providers (ComputeProvider, VercelProvider, DaytonaProvider)    *)
(* and the SandboxManager session registry of open-lovable.                *)
(*                                                                         *)
(* SpecProv : one provider instance driven by a single sequential caller;  *)
(*            every remote SDK call either returns or throws.              *)
(* SpecReg  : the SandboxManager driven by one caller that awaits every    *)
(*            call before it makes the next one.                           *)
(* SpecMgr  : the SandboxManager driven by concurrent async requests that  *)
(*            suspend at `await provider.terminate()`.                     *)
(* SpecRec  : the SandboxManager of a process that looks sessions up by   *)
(*            id (getOrCreateProvider) before it registers them.           *)
(* SpecStatus : createSandbox of one ComputeProvider, step by step through *)
(*            the awaited calls of getComputeStatus.                       *)
(* SpecFiles : writeFile then readFile of one provider, with the content   *)
(*            carried through base64, shell quoting and echo.              *)
(* SpecList : listFiles of one provider over a small remote file tree.     *)
(* SpecFactory : SandboxFactory.create and isProviderAvailable over names, *)
(*            settings, configs and environments.                          *)
(* SpecAll  : every SandboxManager operation of one process, with one      *)
(*            asynchronous call in flight.                                 *)
(* SpecRoute : two POST requests to create-ai-sandbox-v2, await by await.  *)
(* SpecAwait : one provider operation suspended at its awaits while        *)
(*            terminate() runs on the same instance.                       *)
(* SpecTag  : SandboxFactory.create followed by createSandbox() on the     *)
(*            instance it built.                                           *)
(***************************************************************************)
EXTENDS Integers, Sequences, FiniteSets, TLC

(* ------------------------------ bounds -------------------------------- *)
\* remote sessions the backend hands out during one behaviour
MaxSessions == 3
\* largest nonzero exit code a remote command reports
MaxExit == 1
\* ticks of the wall clock (Date.now()) during one behaviour
MaxTime == 1
(* --------------------------- model values ----------------------------- *)
\* this.sandbox = null / this.sandboxInfo = null
NoSession == 0
\* result.exitCode === undefined
UNDEF == -1
\* activeSandboxId = null, no registry entry
NoId == "null"
NoProvider == "none"

SessionIds == 1..MaxSessions

\* provider classes; the _v0 kinds are the second copies found in the sources
ComputeKinds == {"compute", "compute_v0"}
VercelKinds == {"vercel", "vercel_v0"}
DaytonaKinds == {"daytona"}
Kinds == ComputeKinds \cup VercelKinds \cup DaytonaKinds
\* E2BProvider: built by the factory, its class is not among the sources
E2BKinds == {"e2b"}

\* provider instances, in the order the factory builds them
Instances == <<"p1", "p2">>
Providers == {Instances[n] : n \in 1..Len(Instances)}
\* the instance the sequential caller of SpecProv drives
ProvUnderTest == {"p1"}

\* exit codes the remote may report: missing, zero, nonzero
RemoteExit == {UNDEF} \cup (0..MaxExit)

\* relative paths handed to writeFile
Paths == {"src/App.jsx"}
PackageLists == {<< >>, <<"lodash">>}

IOOps == {"runCommand", "writeFile", "readFile", "listFiles",
          "installPackages", "setupViteApp", "restartViteServer"}

VARIABLES
  kind,            \* class of each provider instance
  sandbox,         \* this.sandbox: remote session handle, NoSession = null
  sandboxInfo,     \* this.sandboxInfo.sandboxId, NoSession = null
  workingDir,      \* DaytonaProvider.workingDir is cached (non-null)
  existingFiles,   \* shadow file-set of VercelProvider / DaytonaProvider
  remote,          \* sessions currently allocated on the backend
  nextSid,         \* next session id the backend hands out
  destroyCalls,    \* remote destroy requests issued, per session
  autoRestartVite, \* appConfig.packages.autoRestartVite
  last,            \* outcome of the last completed provider call
  sandboxes,       \* SandboxManager.sandboxes
  activeSandboxId, \* SandboxManager.activeSandboxId
  now,             \* wall clock
  task,            \* in-flight async SandboxManager calls
  mlast,           \* name of the last completed SandboxManager call
  statusCheck,     \* the running ComputeProvider.getComputeStatus call
  remoteFs,        \* the file the caller keeps on the remote session
  tree,            \* regular files found on the remote session
  ret,             \* what the last file or factory call returned
  activeSandboxProvider, \* global.activeSandboxProvider of the routes
  request,         \* the create-ai-sandbox-v2 requests in flight
  pending          \* the provider operation suspended at an await

pvars == <<kind, sandbox, sandboxInfo, workingDir, existingFiles, remote,
           nextSid, destroyCalls, autoRestartVite, last>>
fvars == <<remoteFs, tree, ret>>
rvars == <<activeSandboxProvider, request, pending>>
mvars == <<sandboxes, activeSandboxId, now, task, mlast, statusCheck, fvars>>
vars == <<kind, sandbox, sandboxInfo, workingDir, existingFiles, remote,
          nextSid, destroyCalls, autoRestartVite, last,
          sandboxes, activeSandboxId, now, task, mlast, statusCheck,
          remoteFs, tree, ret, activeSandboxProvider, request, pending>>

(* ---------------------- provider: pure helpers ------------------------ *)

\* isAlive(): !!this.sandbox
isAlive(p) == sandbox[p] # NoSession

\* getSandboxInfo(): this.sandboxInfo
getSandboxInfo(p) == sandboxInfo[p]

\* getSandboxUrl(): this.sandboxInfo?.url || null, the preview URL of the
\* session SandboxInfo was built for (named here by that session)
getSandboxUrl(p) == sandboxInfo[p]

\* `if (!this.sandbox) throw new Error('No active sandbox')`
NoActiveSandbox_info(p) == sandboxInfo[p] = NoSession
NoActiveSandbox(p) == sandbox[p] = NoSession

\* CommandResult.exitCode computed from the remote result
\*   Compute:          typeof rc === 'number' ? rc : 0
\*   Vercel / Daytona: rc || 0
ExitCodeOf(k, rc) ==
  IF k \in ComputeKinds
    THEN (IF rc # UNDEF THEN rc ELSE 0)
    ELSE (IF rc = UNDEF \/ rc = 0 THEN 0 ELSE rc)

\* CommandResult.success computed from the remote result
\*   Compute:          exitCode === 0   (the normalised code)
\*   Vercel / Daytona: result.exitCode === 0   (the raw code)
SuccessOf(k, rc) ==
  IF k \in ComputeKinds THEN ExitCodeOf(k, rc) = 0 ELSE rc = 0

\* runCommand wraps the SDK call in try/catch and turns a throw into
\* { exitCode: 1, success: false } (Vercel, Daytona); Compute has no catch
RunCommandCatches(k) == k \notin ComputeKinds

\* terminate(): condition under which the destroy request is issued
TerminateEnters(k, sb, info) ==
  IF k \in VercelKinds THEN sb # NoSession /\ info # NoSession
  ELSE sb # NoSession

\* terminate(): session id handed to the destroy request
TerminateTarget(k, sb, info) ==
  IF k \in VercelKinds THEN info ELSE sb

\* terminate(): whether the fields are nulled; Compute nulls them outside
\* the `if`, Vercel and Daytona inside it
TerminateClears(k, entered) == k \in ComputeKinds \/ entered

NoResult == [has |-> FALSE, exitCode |-> 0, success |-> FALSE]
Result(ec, ok) == [has |-> TRUE, exitCode |-> ec, success |-> ok]

\* had : the instance held a session handle when the call was made
\* prev: the call completed just before this one
Last(p, op, out, calls, res, infra, restarts) ==
  [p |-> p, op |-> op, prev |-> last.op, had |-> isAlive(p), out |-> out,
   calls |-> calls, res |-> res, infra |-> infra, restarts |-> restarts]

(* ------------------- provider: restartViteServer ---------------------- *)
\* remote call of restartViteServer that throws ("none": no call throws)
RestartFaults(k) ==
  IF k = "compute" THEN {"none", "kill", "start", "ps", "tail"}
  ELSE {"none", "kill", "start"}

\* whether restartViteServer rejects when the call named by f throws
\*   kill : try/catch in Vercel and Daytona, bare await in Compute
\*   start: not awaited in Compute, try/catch in vercel, bare await in
\*          vercel_v0 and daytona
\*   ps, tail: bare awaits of compute
RestartThrows(k, f) ==
  \/ f = "kill" /\ k \in ComputeKinds
  \/ f = "start" /\ k \in {"vercel_v0", "daytona"}
  \/ f \in {"ps", "tail"} /\ k = "compute"

\* steps restartViteServer performs, in order, until it returns or rejects
RestartTrace(k, f) ==
  LET settle == IF k \in DaytonaKinds THEN << >> ELSE <<"settle">>
      head == <<"kill">>
      mid == head \o settle \o <<"start">>
      full == mid \o <<"startup">>
  IN IF f = "kill" /\ RestartThrows(k, f) THEN head
     ELSE IF f = "start" /\ RestartThrows(k, f) THEN mid
     ELSE IF k # "compute" THEN full
     ELSE IF f = "ps" THEN full \o <<"ps">>
     ELSE full \o <<"ps", "tail">>

\* number of remote calls in a trace (the waits are local timers)
RemoteCalls(tr) ==
  Cardinality({i \in 1..Len(tr) : tr[i] \notin {"settle", "startup"}})

(* ------------------------ provider: operations ------------------------ *)
\* DaytonaProvider.ensureWorkingDir caches the configured directory
EnsureWorkingDir(p) ==
  IF kind[p] \in DaytonaKinds THEN [workingDir EXCEPT ![p] = TRUE]
  ELSE workingDir

\* a call rejected by the `if (!this.sandbox)` guard: nothing else happens
Rejected(p, op) ==
  /\ last' = Last(p, op, "noActive", 0, NoResult, FALSE, 0)
  /\ UNCHANGED <<mvars, kind, sandbox, sandboxInfo, workingDir, existingFiles,
                 remote, nextSid, destroyCalls, autoRestartVite>>

\* steps of createSandbox that may throw
CreateFaults(k) ==
  {"none", "create", "url"} \cup (IF k = "compute" THEN {"status"} ELSE {})

\* createSandbox: `if (this.sandbox)` destroys the session held so far
DestroysPrior_never(prior) == FALSE
DestroysPrior(prior) == prior # NoSession

\* createSandbox without the record of its outcome
\*   destroyThrows: the destroy of the prior session throws
\*   fault        : the step that throws ("none": createSandbox returns)
CreateSandboxBody(p, destroyThrows, fault) ==
    LET k == kind[p]
        prior == sandbox[p]
        hadPrior == prior # NoSession
        allocated == fault # "create"
        sid == nextSid
        kept == IF DestroysPrior(prior) /\ ~destroyThrows
                  THEN remote \ {prior} ELSE remote
    IN /\ destroyThrows => hadPrior
       /\ allocated => nextSid <= MaxSessions
       /\ remote' = IF allocated THEN kept \cup {sid} ELSE kept
       /\ destroyCalls' = IF DestroysPrior(prior)
                            THEN [destroyCalls EXCEPT ![prior] = @ + 1]
                            ELSE destroyCalls
       /\ sandbox' = [sandbox EXCEPT ![p] =
                        IF allocated THEN sid ELSE NoSession]
       /\ sandboxInfo' = [sandboxInfo EXCEPT ![p] =
                            IF fault = "none" THEN sid
                            ELSE IF hadPrior /\ k \in ComputeKinds
                              THEN NoSession ELSE @]
       /\ workingDir' = IF hadPrior /\ k \in DaytonaKinds
                          THEN [workingDir EXCEPT ![p] = FALSE]
                          ELSE workingDir
       /\ existingFiles' = IF k \in ComputeKinds THEN existingFiles
                           ELSE [existingFiles EXCEPT ![p] = {}]
       /\ nextSid' = IF allocated THEN nextSid + 1 ELSE nextSid
       /\ UNCHANGED <<kind, autoRestartVite>>

createSandbox(p) ==
  \E destroyThrows \in BOOLEAN, fault \in CreateFaults(kind[p]) :
    /\ CreateSandboxBody(p, destroyThrows, fault)
    /\ last' = Last(p, "createSandbox",
                    IF fault = "none" THEN "ok" ELSE "error",
                    (IF isAlive(p) THEN 1 ELSE 0) + 1, NoResult,
                    fault # "none", 0)
    /\ UNCHANGED mvars

terminate(p) ==
  \E destroyThrows \in BOOLEAN :
    LET k == kind[p]
        entered == TerminateEnters(k, sandbox[p], sandboxInfo[p])
        target == TerminateTarget(k, sandbox[p], sandboxInfo[p])
        clears == TerminateClears(k, entered)
    IN /\ destroyThrows => entered
       /\ remote' = IF entered /\ ~destroyThrows
                      THEN remote \ {target} ELSE remote
       /\ destroyCalls' = IF entered
                            THEN [destroyCalls EXCEPT ![target] = @ + 1]
                            ELSE destroyCalls
       /\ sandbox' = IF clears THEN [sandbox EXCEPT ![p] = NoSession]
                     ELSE sandbox
       /\ sandboxInfo' = IF clears
                           THEN [sandboxInfo EXCEPT ![p] = NoSession]
                           ELSE sandboxInfo
       /\ workingDir' = IF entered /\ k \in DaytonaKinds
                          THEN [workingDir EXCEPT ![p] = FALSE]
                          ELSE workingDir
       /\ existingFiles' = IF entered /\ k \in DaytonaKinds
                             THEN [existingFiles EXCEPT ![p] = {}]
                             ELSE existingFiles
       /\ last' = Last(p, "terminate", "ok",
                       IF entered THEN 1 ELSE 0, NoResult, destroyThrows, 0)
       /\ UNCHANGED <<mvars, kind, nextSid, autoRestartVite>>

runCommand(p) ==
  IF NoActiveSandbox(p) THEN Rejected(p, "runCommand")
  ELSE \E throws \in BOOLEAN, rc \in RemoteExit :
    LET k == kind[p] IN
    /\ throws => rc = UNDEF
    /\ workingDir' = EnsureWorkingDir(p)
    /\ last' =
         IF throws
           THEN IF RunCommandCatches(k)
                  THEN Last(p, "runCommand", "ok", 1,
                            Result(1, FALSE), TRUE, 0)
                  ELSE Last(p, "runCommand", "error", 1,
                            NoResult, TRUE, 0)
           ELSE Last(p, "runCommand", "ok", 1,
                     Result(ExitCodeOf(k, rc), SuccessOf(k, rc)), FALSE, 0)
    /\ UNCHANGED <<mvars, kind, sandbox, sandboxInfo, existingFiles, remote,
                   nextSid, destroyCalls, autoRestartVite>>

\* a restart after every installation, whatever its exit code
RestartAfterInstall_always(k, rc) == TRUE

\* installPackages restarts the dev server after a successful install
RestartAfterInstall(k, rc) ==
  /\ autoRestartVite
  /\ IF k \in ComputeKinds THEN ExitCodeOf(k, rc) = 0 ELSE rc = 0

installPackages(p) ==
  IF NoActiveSandbox(p) THEN Rejected(p, "installPackages")
  ELSE \E packages \in PackageLists, throws \in BOOLEAN, rc \in RemoteExit :
    LET k == kind[p]
        short == k \in ComputeKinds /\ packages = << >>
    IN
    /\ throws => rc = UNDEF
    /\ short => ~throws /\ rc = 0
    /\ workingDir' = EnsureWorkingDir(p)
    /\ \E f \in RestartFaults(k) :
         LET restart == ~short /\ ~throws /\ RestartAfterInstall(k, rc)
             tr == IF restart THEN RestartTrace(k, f) ELSE << >>
             res == Result(ExitCodeOf(k, rc), SuccessOf(k, rc))
         IN /\ ~restart => f = "none"
            /\ last' =
                 IF short
                   THEN Last(p, "installPackages", "ok", 0,
                             Result(0, TRUE), FALSE, 0)
                 ELSE IF throws
                   THEN Last(p, "installPackages", "error", 1,
                             NoResult, TRUE, 0)
                 ELSE IF restart /\ RestartThrows(k, f)
                   THEN Last(p, "installPackages", "error",
                             1 + RemoteCalls(tr), NoResult, TRUE, 1)
                 ELSE Last(p, "installPackages", "ok",
                           1 + RemoteCalls(tr), res, FALSE,
                           IF restart THEN 1 ELSE 0)
    /\ UNCHANGED <<mvars, kind, sandbox, sandboxInfo, existingFiles, remote,
                   nextSid, destroyCalls, autoRestartVite>>

restartViteServer(p) ==
  IF NoActiveSandbox(p) THEN Rejected(p, "restartViteServer")
  ELSE \E f \in RestartFaults(kind[p]) :
    LET k == kind[p]
        tr == RestartTrace(k, f)
    IN
    /\ workingDir' = EnsureWorkingDir(p)
    /\ last' = Last(p, "restartViteServer",
                    IF RestartThrows(k, f) THEN "error" ELSE "ok",
                    RemoteCalls(tr), NoResult, RestartThrows(k, f), 1)
    /\ UNCHANGED <<mvars, kind, sandbox, sandboxInfo, existingFiles, remote,
                   nextSid, destroyCalls, autoRestartVite>>

\* writeFile: mkdir of the parent directory, then the write itself
\*   a throwing mkdir: propagates (Compute), falls back to `mkdir -p`
\*   (vercel), is swallowed (vercel_v0, daytona)
\*   a nonzero exit of the write command is an error only in Vercel
writeFile(p) ==
  IF NoActiveSandbox(p) THEN Rejected(p, "writeFile")
  ELSE \E path \in Paths, f \in {"none", "mkdir", "write"},
          rc \in RemoteExit :
    LET k == kind[p]
        mkdirFails == f = "mkdir" /\ k \in ComputeKinds
        calls == IF mkdirFails THEN 1
                 ELSE IF f = "mkdir" /\ k = "vercel" THEN 3 ELSE 2
        fails == \/ mkdirFails
                 \/ f = "write"
                 \/ k \in VercelKinds /\ rc # 0
    IN
    /\ f = "write" => rc = UNDEF
    /\ k \notin VercelKinds => rc = 0
    /\ workingDir' = EnsureWorkingDir(p)
    /\ existingFiles' = IF ~fails /\ k \notin ComputeKinds
                          THEN [existingFiles EXCEPT ![p] = @ \cup {path}]
                          ELSE existingFiles
    /\ last' = Last(p, "writeFile",
                    IF fails THEN "error" ELSE "ok", calls, NoResult,
                    mkdirFails \/ f = "write", 0)
    /\ UNCHANGED <<mvars, kind, sandbox, sandboxInfo, remote, nextSid,
                   destroyCalls, autoRestartVite>>

\* readFile: one remote read; a throw or a failed `cat` is an error
readFile(p) ==
  IF NoActiveSandbox(p) THEN Rejected(p, "readFile")
  ELSE \E path \in Paths, throws \in BOOLEAN, found \in BOOLEAN :
    /\ throws => ~found
    /\ workingDir' = EnsureWorkingDir(p)
    /\ last' = Last(p, "readFile",
                    IF found THEN "ok" ELSE "error", 1, NoResult, throws, 0)
    /\ UNCHANGED <<mvars, kind, sandbox, sandboxInfo, existingFiles, remote,
                   nextSid, destroyCalls, autoRestartVite>>

\* listFiles: one remote listing; a failed listing yields [], a throw
\* propagates
listFiles(p) ==
  IF NoActiveSandbox(p) THEN Rejected(p, "listFiles")
  ELSE \E throws \in BOOLEAN :
    /\ workingDir' = EnsureWorkingDir(p)
    /\ last' = Last(p, "listFiles",
                    IF throws THEN "error" ELSE "ok", 1, NoResult, throws, 0)
    /\ UNCHANGED <<mvars, kind, sandbox, sandboxInfo, existingFiles, remote,
                   nextSid, destroyCalls, autoRestartVite>>

\* files written by setupViteApp
ScaffoldFiles == 8

\* setupViteApp: mkdir src, the scaffold files, npm install, restart
\*   f = "mkdir"  : the first remote call throws (Vercel falls back)
\*   f = "install": npm install throws (DaytonaProvider.runCommand catches)
setupViteApp(p) ==
  IF NoActiveSandbox(p) THEN Rejected(p, "setupViteApp")
  ELSE \E f \in {"none", "mkdir", "install"}, rf \in RestartFaults(kind[p]) :
    LET k == kind[p]
        stops == \/ f = "mkdir" /\ k \notin VercelKinds
                 \/ f = "install" /\ k \notin DaytonaKinds
        tr == IF stops THEN << >> ELSE RestartTrace(k, rf)
        fails == stops \/ RestartThrows(k, rf)
        writes == IF k \in ComputeKinds THEN ScaffoldFiles
                  ELSE 2 * ScaffoldFiles
        calls == IF f = "mkdir" /\ stops THEN 1
                 ELSE (IF f = "mkdir" THEN 2 ELSE 1)
                      + writes + 1 + RemoteCalls(tr)
    IN
    /\ stops => rf = "none"
    /\ workingDir' = EnsureWorkingDir(p)
    /\ existingFiles' = IF ~fails /\ k \notin ComputeKinds
                          THEN [existingFiles EXCEPT ![p] = @ \cup Paths]
                          ELSE existingFiles
    /\ last' = Last(p, "setupViteApp",
                    IF fails THEN "error" ELSE "ok", calls, NoResult,
                    fails, IF stops THEN 0 ELSE 1)
    /\ UNCHANGED <<mvars, kind, sandbox, sandboxInfo, remote, nextSid,
                   destroyCalls, autoRestartVite>>

(* --------------------------- SandboxManager --------------------------- *)
\* keys of the registry (sandbox ids handed to the manager)
Ids == {"a", "b"}
\* concurrent requests calling into the manager
Tasks == {1, 2}
\* maxAge arguments of cleanup
MaxAges == 0..MaxTime

\* a registry entry; createdAt is written and never read and is left out
\*   term: terminate() has been invoked on the provider through this entry
NoEntry == [sandboxId |-> NoId, provider |-> NoProvider, lastAccessed |-> 0,
            term |-> FALSE]
Entry(i, p, t) == [sandboxId |-> i, provider |-> p, lastAccessed |-> t,
                   term |-> FALSE]

\* Map<string, SandboxInfo>: entries in insertion order
MapHas(m, i) == \E n \in 1..Len(m) : m[n].sandboxId = i
MapGet(m, i) ==
  IF MapHas(m, i)
    THEN m[CHOOSE n \in 1..Len(m) : m[n].sandboxId = i]
    ELSE NoEntry
\* Map.set keeps the position of an existing key
MapSet(m, i, e) ==
  IF MapHas(m, i)
    THEN [n \in 1..Len(m) |-> IF m[n].sandboxId = i THEN e ELSE m[n]]
    ELSE Append(m, e)
MapDelete_keep(m, i) == m
MapDelete(m, i) == SelectSeq(m, LAMBDA e : e.sandboxId # i)
MapKeys(m) == {m[n].sandboxId : n \in 1..Len(m)}
\* the (id, provider) pairs held by the registry
MapPairs(m) == {[id |-> m[n].sandboxId, p |-> m[n].provider] : n \in 1..Len(m)}
\* `sandbox.lastAccessed = new Date()`
Touch(m, i) == MapSet(m, i, [MapGet(m, i) EXCEPT !.lastAccessed = now])
\* records that terminate() was invoked through the entries with keys K
MarkTerm(m, K) ==
  [n \in 1..Len(m) |->
     IF m[n].sandboxId \in K THEN [m[n] EXCEPT !.term = TRUE] ELSE m[n]]

\* an async call of the manager
\*   pc      : "idle", "await" (suspended at an await of provider.terminate),
\*             "resume" (cleanup between two iterations of its loop)
\*   id      : sandboxId argument of the running terminateSandbox
\*   pend    : provider.terminate() calls suspended at their remote destroy
\*   todo    : ids cleanup still has to visit
\*   maxAge  : maxAge argument of the running cleanup
Idle == [op |-> "idle", pc |-> "idle", id |-> NoId, pend |-> {},
         todo |-> << >>, maxAge |-> 0]

\* no manager call is in flight
Quiet == \A t \in Tasks : task[t].pc = "idle"

\* a new call takes the first free slot
FreeSlot(t) ==
  /\ task[t].pc = "idle"
  /\ \A u \in Tasks : task[u].pc = "idle" => t <= u


\* the synchronous part of provider.terminate(), up to its first await,
\* for the (id, provider) pairs E: the destroy request is issued when the
\* guard holds; ComputeProvider nulls its fields at once when it does not
Entered(p) == TerminateEnters(kind[p], sandbox[p], sandboxInfo[p])
Target(p) == TerminateTarget(kind[p], sandbox[p], sandboxInfo[p])
PendOf(E) ==
  {[id |-> e.id, p |-> e.p, sid |-> Target(e.p)] : e \in {x \in E : Entered(x.p)}}
ClearsAtOnce(E, p) ==
  /\ \E e \in E : e.p = p
  /\ ~Entered(p)
  /\ TerminateClears(kind[p], FALSE)
InvokeTerminate(E) ==
  /\ destroyCalls' =
       [s \in SessionIds |->
          destroyCalls[s]
          + Cardinality({e \in E : Entered(e.p) /\ Target(e.p) = s})]
  /\ sandbox' = [p \in Providers |->
                   IF ClearsAtOnce(E, p) THEN NoSession ELSE sandbox[p]]
  /\ sandboxInfo' = [p \in Providers |->
                       IF ClearsAtOnce(E, p) THEN NoSession ELSE sandboxInfo[p]]
  /\ sandboxes' = MarkTerm(sandboxes, {e.id : e \in E})
  /\ UNCHANGED <<kind, workingDir, existingFiles, remote, nextSid,
                 autoRestartVite, last>>

\* terminate(): the statements that null the fields follow the try/catch
\* around the destroy, so they run whether or not the destroy threw
NullsAfterDestroy_onSuccess(throws) == ~throws
NullsAfterDestroy(throws) == TRUE

\* the remote destroy awaited by one provider.terminate() returns or throws;
\* terminate() then nulls the fields of its instance and resolves
DestroyReturns(t) ==
  \E inv \in task[t].pend, throws \in BOOLEAN :
    LET p == inv.p
        nulls == NullsAfterDestroy(throws)
    IN
    /\ remote' = IF throws THEN remote ELSE remote \ {inv.sid}
    /\ sandbox' = IF nulls THEN [sandbox EXCEPT ![p] = NoSession]
                  ELSE sandbox
    /\ sandboxInfo' = IF nulls THEN [sandboxInfo EXCEPT ![p] = NoSession]
                      ELSE sandboxInfo
    /\ workingDir' = IF nulls /\ kind[p] \in DaytonaKinds
                       THEN [workingDir EXCEPT ![p] = FALSE] ELSE workingDir
    /\ existingFiles' = IF nulls /\ kind[p] \in DaytonaKinds
                          THEN [existingFiles EXCEPT ![p] = {}]
                          ELSE existingFiles
    /\ task' = [task EXCEPT ![t].pend = @ \ {inv}]
    /\ UNCHANGED <<kind, nextSid, destroyCalls, autoRestartVite, last,
                   sandboxes, activeSandboxId, now, statusCheck, fvars, mlast>>

\* entries left after `this.sandboxes.set(sandboxId, {...})`
RegisterSet_evict(m, id, provider) == << Entry(id, provider, now) >>
RegisterSet(m, id, provider) == MapSet(m, id, Entry(id, provider, now))

registerSandbox(id, provider) ==
  /\ sandboxes' = RegisterSet(sandboxes, id, provider)
  /\ activeSandboxId' = id
  /\ mlast' = "registerSandbox"
  /\ UNCHANGED <<pvars, now, statusCheck, fvars, task>>

\* value returned by getActiveProvider()
ActiveProvider ==
  IF activeSandboxId = NoId THEN NoProvider
  ELSE MapGet(sandboxes, activeSandboxId).provider

\* value returned by getProvider(id)
ProviderOf(id) == MapGet(sandboxes, id).provider

getActiveProvider ==
  /\ sandboxes' = IF activeSandboxId # NoId /\ MapHas(sandboxes, activeSandboxId)
                    THEN Touch(sandboxes, activeSandboxId) ELSE sandboxes
  /\ mlast' = "getActiveProvider"
  /\ UNCHANGED <<pvars, activeSandboxId, now, statusCheck, fvars, task>>

getProvider(id) ==
  /\ sandboxes' = IF MapHas(sandboxes, id) THEN Touch(sandboxes, id)
                  ELSE sandboxes
  /\ mlast' = "getProvider"
  /\ UNCHANGED <<pvars, activeSandboxId, now, statusCheck, fvars, task>>

\* value returned by setActiveSandbox(id): `this.sandboxes.has(sandboxId)`
SetActiveReturns_always(m, id) == TRUE
SetActiveReturns(m, id) == MapHas(m, id)

setActiveSandbox(id) ==
  LET ok == SetActiveReturns(sandboxes, id) IN
  /\ activeSandboxId' = IF ok THEN id ELSE activeSandboxId
  /\ mlast' = IF ok THEN "setActiveSandbox:true" ELSE "setActiveSandbox:false"
  /\ UNCHANGED <<pvars, sandboxes, now, statusCheck, fvars, task>>

\* an instance in the state the constructor leaves it in, held by no entry:
\* what `SandboxFactory.create()` hands to getOrCreateProvider
Fresh(p) ==
  /\ sandbox[p] = NoSession
  /\ sandboxInfo[p] = NoSession
  /\ ~workingDir[p]
  /\ existingFiles[p] = {}
  /\ \A n \in 1..Len(sandboxes) : sandboxes[n].provider # p

\* `provider.constructor.name === 'E2BProvider'`: reconnect is attempted
ReconnectAttempted_any(k) == TRUE
ReconnectAttempted(k) == k \in E2BKinds

\* E2BProvider.reconnect(sandboxId) returned true: the instance holds the
\* session the backend kept under that id
Reconnected(p) ==
  /\ nextSid <= MaxSessions
  /\ sandbox' = [sandbox EXCEPT ![p] = nextSid]
  /\ sandboxInfo' = [sandboxInfo EXCEPT ![p] = nextSid]
  /\ remote' = remote \cup {nextSid}
  /\ nextSid' = nextSid + 1

\* getOrCreateProvider(id) returning provider p
\*   reconnected: reconnect(id) was called and returned true
getOrCreateProvider(id, p, reconnected) ==
  /\ mlast' = "getOrCreateProvider"
  /\ IF MapHas(sandboxes, id)
       THEN /\ p = MapGet(sandboxes, id).provider
            /\ ~reconnected
            /\ sandboxes' = Touch(sandboxes, id)
            /\ UNCHANGED <<pvars, activeSandboxId, now, statusCheck, fvars, task>>
       ELSE /\ Fresh(p)
            /\ reconnected => ReconnectAttempted(kind[p])
            /\ IF reconnected
                 THEN /\ Reconnected(p)
                      /\ sandboxes' = MapSet(sandboxes, id, Entry(id, p, now))
                      /\ activeSandboxId' = id
                      /\ UNCHANGED <<kind, workingDir, existingFiles,
                                     destroyCalls, autoRestartVite, last,
                                     now, statusCheck, fvars, task>>
                 ELSE UNCHANGED <<pvars, sandboxes, activeSandboxId, now, statusCheck, fvars,
                                  task>>

\* terminateSandbox(id) up to `await sandbox.provider.terminate()`
\*   op  : the call the slot runs (terminateSandbox itself, or cleanup)
\*   rest: ids the calling cleanup still has to visit
\*   maxAge: argument of the calling cleanup, 0 without one
TerminateSandboxBegin(t, op, id, rest, maxAge) ==
  LET E == {[id |-> id, p |-> MapGet(sandboxes, id).provider]} IN
  IF MapHas(sandboxes, id)
    THEN /\ InvokeTerminate(E)
         /\ task' = [task EXCEPT ![t] =
                       [op |-> op, pc |-> "await", id |-> id,
                        pend |-> PendOf(E), todo |-> rest,
                        maxAge |-> maxAge]]
         /\ UNCHANGED <<activeSandboxId, now, statusCheck, fvars, mlast>>
    ELSE /\ task' = [task EXCEPT ![t] =
                       IF op = "cleanup"
                         THEN [op |-> op, pc |-> "resume", id |-> NoId,
                               pend |-> {}, todo |-> rest,
                               maxAge |-> maxAge]
                         ELSE Idle]
         /\ mlast' = IF op = "cleanup" THEN mlast ELSE "terminateSandbox"
         /\ UNCHANGED <<pvars, sandboxes, activeSandboxId, now, statusCheck, fvars>>

\* the pointer left as it is after the delete
PointerAfterDelete_kept(active, id) == active

\* if (this.activeSandboxId === sandboxId) this.activeSandboxId = null
PointerAfterDelete(active, id) == IF active = id THEN NoId ELSE active

\* terminateSandbox(id) after the await: delete the key, clear the pointer
TerminateSandboxEnd(t) ==
  LET id == task[t].id IN
  /\ sandboxes' = MapDelete(sandboxes, id)
  /\ activeSandboxId' = PointerAfterDelete(activeSandboxId, id)
  /\ mlast' = "terminateSandbox"
  /\ UNCHANGED <<pvars, now, statusCheck, fvars>>

terminateSandboxStart(t, id) ==
  /\ FreeSlot(t)
  /\ TerminateSandboxBegin(t, "terminateSandbox", id, << >>, 0)

terminateSandboxFinish(t) ==
  /\ task[t].op = "terminateSandbox"
  /\ task[t].pc = "await"
  /\ task[t].pend = {}
  /\ TerminateSandboxEnd(t)
  /\ task' = [task EXCEPT ![t] = Idle]

\* entries terminateAll invokes terminate() on
TerminateAllTargets_active(m) ==
  {e \in MapPairs(m) : e.id = activeSandboxId}
TerminateAllTargets(m) == MapPairs(m)

\* terminateAll() up to `await Promise.all(promises)`
terminateAllStart(t) ==
  LET E == TerminateAllTargets(sandboxes) IN
  /\ FreeSlot(t)
  /\ InvokeTerminate(E)
  /\ task' = [task EXCEPT ![t] =
                [Idle EXCEPT !.op = "terminateAll", !.pc = "await",
                             !.pend = PendOf(E)]]
  /\ UNCHANGED <<activeSandboxId, now, statusCheck, fvars, mlast>>

\* terminateAll() after Promise.all: clear the map and the pointer
terminateAllFinish(t) ==
  /\ task[t].op = "terminateAll"
  /\ task[t].pc = "await"
  /\ task[t].pend = {}
  /\ sandboxes' = << >>
  /\ activeSandboxId' = NoId
  /\ mlast' = "terminateAll"
  /\ task' = [task EXCEPT ![t] = Idle]
  /\ UNCHANGED <<pvars, now, statusCheck, fvars>>

\* ids cleanup selects: entries not accessed for more than maxAge
ToDelete(m, maxAge) ==
  LET old == SelectSeq(m, LAMBDA e : now - e.lastAccessed > maxAge)
  IN [n \in 1..Len(old) |-> old[n].sandboxId]

\* cleanup(maxAge) up to the await of its first terminateSandbox
cleanupStart(t, maxAge) ==
  LET toDelete == ToDelete(sandboxes, maxAge) IN
  /\ FreeSlot(t)
  /\ IF toDelete = << >>
       THEN /\ mlast' = "cleanup"
            /\ UNCHANGED <<pvars, sandboxes, activeSandboxId, now, statusCheck, fvars, task>>
       ELSE TerminateSandboxBegin(t, "cleanup", Head(toDelete),
                                  Tail(toDelete), maxAge)

\* the terminateSandbox awaited by cleanup resumes and returns
cleanupInnerFinish(t) ==
  /\ task[t].op = "cleanup"
  /\ task[t].pc = "await"
  /\ task[t].pend = {}
  /\ TerminateSandboxEnd(t)
  /\ task' = [task EXCEPT ![t].pc = "resume", ![t].id = NoId]

\* cleanup resumes: next iteration of `for (const id of toDelete)`, or return
cleanupResume(t) ==
  /\ task[t].op = "cleanup"
  /\ task[t].pc = "resume"
  /\ IF task[t].todo = << >>
       THEN /\ task' = [task EXCEPT ![t] = Idle]
            /\ mlast' = "cleanup"
            /\ UNCHANGED <<pvars, sandboxes, activeSandboxId, now, statusCheck, fvars>>
       ELSE TerminateSandboxBegin(t, "cleanup", Head(task[t].todo),
                                  Tail(task[t].todo), task[t].maxAge)

\* the clock advances
Tick ==
  /\ now < MaxTime
  /\ now' = now + 1
  /\ UNCHANGED <<pvars, sandboxes, activeSandboxId, task, mlast, statusCheck, fvars>>

\* a request handler calls createSandbox() once on the provider instance the
\* factory has just built for it; the backend allocates the session
provision(p) ==
  \E fault \in CreateFaults(kind[p]) \ {"create"} :
    /\ nextSid <= Len(Instances)
    /\ p = Instances[nextSid]
    /\ CreateSandboxBody(p, FALSE, fault)
    /\ UNCHANGED <<last, mvars>>

(* ------------- provider: ComputeProvider.getComputeStatus ------------- *)
\* const maxWaitMs / const pollIntervalMs
MaxWaitMs == 10000
PollIntervalMs == 500
\* time one awaited remote command takes: none, one interval, the ceiling
CallMs == {0, PollIntervalMs, MaxWaitMs}
\* `let status` before the first assignment
NoStatus == -2

\* pc       : "idle" no check runs; "poll", "wait", "install", "recheck"
\*            name the awaited call; "ok" returned; "failed" threw
\* elapsed  : Date.now() - startTime
\* status   : exit code of the last `compute status` that returned
\* polls, waits, installs : status commands, setTimeout waits and install
\*            commands issued by this check
\* at0      : the three counts when a status command first reported 0
\* instAt   : elapsed, polls and "a 0 was reported" when install was issued
\* instRc   : exit code the install command returned, NoStatus before
\* stderr, stdout : output of the status command issued after the install
\* err      : message of the Error the check threw on its final test
NoCheck ==
  [p |-> NoProvider, pc |-> "idle", elapsed |-> 0, status |-> NoStatus,
   polls |-> 0, waits |-> 0, installs |-> 0,
   at0 |-> << >>, instAt |-> << >>, instRc |-> NoStatus,
   stderr |-> "", stdout |-> "", err |-> ""]

Issued(c) == <<c.polls, c.waits, c.installs>>
SeenZero(c, rc) == IF rc = 0 /\ c.at0 = << >> THEN Issued(c) ELSE c.at0

\* `if (status.exitCode === 0) return` inside the loop
PollSucceeded_never(rc) == FALSE
PollSucceeded(rc) == rc = 0

\* `while (Date.now() - startTime < maxWaitMs)`
LoopContinues_short(e) == e < PollIntervalMs
LoopContinues_late(e) == e <= MaxWaitMs
LoopContinues(e) == e < MaxWaitMs

\* what a remote command may leave on stderr / stdout ("": nothing)
Stderrs == {"", "stderr"}
Stdouts == {"", "stdout"}

\* `status.stderr || status.stdout || 'Failed to get Compute status'`
ErrorMessage_stdoutFirst(stderr, stdout) ==
  IF stdout # "" THEN stdout
  ELSE IF stderr # "" THEN stderr ELSE "Failed to get Compute status"
ErrorMessage(stderr, stdout) ==
  IF stderr # "" THEN stderr
  ELSE IF stdout # "" THEN stdout ELSE "Failed to get Compute status"

\* the final `if (status.exitCode !== 0) throw new Error(String(message))`
FinalTest(c) ==
  IF c.status # 0
    THEN [c EXCEPT !.pc = "failed", !.err = ErrorMessage(c.stderr, c.stdout)]
    ELSE [c EXCEPT !.pc = "ok"]

\* the code after the loop: `if (status.exitCode !== 0)` issues the install
\* command; reading exitCode of an unassigned status throws
AfterLoop(c) ==
  IF c.status = NoStatus THEN [c EXCEPT !.pc = "failed"]
  ELSE IF c.status # 0
    THEN [c EXCEPT !.pc = "install", !.installs = @ + 1,
                   !.instAt = <<c.elapsed, c.polls, c.at0 # << >> >>]
    ELSE FinalTest(c)

\* the loop test: the next status command is issued or the loop is left
LoopTest(c) ==
  IF LoopContinues(c.elapsed)
    THEN [c EXCEPT !.pc = "poll", !.polls = @ + 1]
    ELSE AfterLoop(c)

\* getComputeStatus up to its first await; createSandbox has set
\* this.sandbox, so only the credential guard can throw
StartCheck(p, apiKey) ==
  IF apiKey THEN LoopTest([NoCheck EXCEPT !.p = p])
  ELSE [NoCheck EXCEPT !.p = p, !.pc = "failed"]

\* createSandbox up to its first suspension inside getComputeStatus, or
\* to the throw of sandbox.create()
createSandboxEnter(p) ==
  \E destroyThrows \in BOOLEAN, fault \in {"create", "status"},
     apiKey \in BOOLEAN :
    /\ kind[p] \in ComputeKinds
    /\ statusCheck.pc = "idle"
    /\ fault = "create" => apiKey
    /\ CreateSandboxBody(p, destroyThrows, fault)
    /\ statusCheck' = IF fault = "create" THEN statusCheck
                      ELSE StartCheck(p, apiKey)
    /\ last' = Last(p, "createSandbox",
                    IF fault = "create" THEN "error" ELSE "pending",
                    (IF isAlive(p) THEN 1 ELSE 0) + 1, NoResult,
                    fault = "create", 0)
    /\ UNCHANGED <<sandboxes, activeSandboxId, now, task, mlast, fvars>>

\* `status = await this.sandbox.runCommand('compute status')` in the loop
PollReturns(p) ==
  \E d \in CallMs, throws \in BOOLEAN, rc \in RemoteExit :
    /\ statusCheck.p = p
    /\ statusCheck.pc = "poll"
    /\ throws => rc = UNDEF
    /\ statusCheck' =
         IF throws
           THEN [statusCheck EXCEPT !.pc = "failed", !.elapsed = @ + d]
           ELSE LET c == [statusCheck EXCEPT
                            !.elapsed = @ + d, !.status = rc,
                            !.at0 = SeenZero(statusCheck, rc)]
                IN IF PollSucceeded(rc)
                     THEN [c EXCEPT !.pc = "ok"]
                     ELSE [c EXCEPT !.pc = "wait", !.waits = @ + 1]
    /\ UNCHANGED <<pvars, sandboxes, activeSandboxId, now, task, mlast, fvars>>

\* the setTimeout of pollIntervalMs fires and the loop test runs
WaitElapses(p) ==
  /\ statusCheck.p = p
  /\ statusCheck.pc = "wait"
  /\ statusCheck' =
       LoopTest([statusCheck EXCEPT !.elapsed = @ + PollIntervalMs])
  /\ UNCHANGED <<pvars, sandboxes, activeSandboxId, now, task, mlast, fvars>>

\* `await this.sandbox.runCommand(installCommand)`: its exit code is only
\* logged and the status command is issued once more
InstallReturns(p) ==
  \E throws \in BOOLEAN, rc \in RemoteExit :
    /\ statusCheck.p = p
    /\ statusCheck.pc = "install"
    /\ throws => rc = UNDEF
    /\ statusCheck' =
         IF throws THEN [statusCheck EXCEPT !.pc = "failed"]
         ELSE [statusCheck EXCEPT !.pc = "recheck", !.polls = @ + 1,
                                  !.instRc = rc]
    /\ UNCHANGED <<pvars, sandboxes, activeSandboxId, now, task, mlast, fvars>>

\* the status command after the install returns; the final test follows
RecheckReturns(p) ==
  \E throws \in BOOLEAN, rc \in RemoteExit,
     stderr \in Stderrs, stdout \in Stdouts :
    /\ statusCheck.p = p
    /\ statusCheck.pc = "recheck"
    /\ throws => rc = UNDEF /\ stderr = "" /\ stdout = ""
    /\ statusCheck' =
         IF throws THEN [statusCheck EXCEPT !.pc = "failed"]
         ELSE FinalTest([statusCheck EXCEPT
                           !.status = rc,
                           !.stderr = stderr, !.stdout = stdout,
                           !.at0 = SeenZero(statusCheck, rc)])
    /\ UNCHANGED <<pvars, sandboxes, activeSandboxId, now, task, mlast, fvars>>

\* the rest of createSandbox: getUrl and this.sandboxInfo when the check
\* returned, the rethrow when it threw
createSandboxLeave(p) ==
  \E urlThrows \in BOOLEAN :
    /\ statusCheck.p = p
    /\ statusCheck.pc \in {"ok", "failed"}
    /\ urlThrows => statusCheck.pc = "ok"
    /\ sandboxInfo' = IF statusCheck.pc = "ok" /\ ~urlThrows
                        THEN [sandboxInfo EXCEPT ![p] = sandbox[p]]
                        ELSE sandboxInfo
    /\ last' = [last EXCEPT
                  !.out = IF statusCheck.pc = "ok" /\ ~urlThrows
                            THEN "ok" ELSE "error",
                  !.infra = ~(statusCheck.pc = "ok" /\ ~urlThrows)]
    /\ statusCheck' = NoCheck
    /\ UNCHANGED <<kind, sandbox, workingDir, existingFiles, remote, nextSid,
                   destroyCalls, autoRestartVite,
                   sandboxes, activeSandboxId, now, task, mlast, fvars>>

(* ------------------ provider: file contents and paths ----------------- *)
\* no file written yet / nothing returned yet
\*   loc, bytes : where the file is on the remote, and what it holds
\*   path, wrote: the arguments of the writeFile call that stored it
NoFile == [loc |-> << >>, bytes |-> << >>, path |-> << >>, wrote |-> << >>]
NoReturn == [op |-> "none"]

\* longest file content the caller writes, in characters
MaxLen == 2

\* the backtick character (TLA+ strings cannot hold it)
Backtick == "<backtick>"

\* characters of file contents: a letter, newline, both quotes, backtick,
\* dollar, backslash and a two-byte character
Chars == {"n", "\n", "'", "\"", Backtick, "$", "\\", "é"}
Contents == UNION {[1..n -> Chars] : n \in 0..MaxLen}

\* UTF-8 bytes of a character (Buffer.from(content, 'utf-8'))
CharBytes(ch) ==
  CASE ch = "n" -> <<110>>
    [] ch = "\n" -> <<10>>
    [] ch = "'" -> <<39>>
    [] ch = "\"" -> <<34>>
    [] ch = Backtick -> <<96>>
    [] ch = "$" -> <<36>>
    [] ch = "\\" -> <<92>>
    [] ch = "é" -> <<195, 169>>
    [] OTHER -> <<63>>

RECURSIVE Utf8Encode(_)
Utf8Encode(s) ==
  IF s = << >> THEN << >> ELSE CharBytes(Head(s)) \o Utf8Encode(Tail(s))

\* the character of one byte below 128; "?" stands for any other text
ByteChar(b) ==
  IF \E ch \in Chars : CharBytes(ch) = <<b>>
    THEN CHOOSE ch \in Chars : CharBytes(ch) = <<b>>
    ELSE "?"

\* the SDK decodes what the remote process wrote to stdout as UTF-8
RECURSIVE Utf8Decode(_)
Utf8Decode(b) ==
  IF b = << >> THEN << >>
  ELSE IF Len(b) >= 2 /\ CharBytes("é") = <<b[1], b[2]>>
    THEN <<"é">> \o Utf8Decode(Tail(Tail(b)))
  ELSE <<ByteChar(Head(b))>> \o Utf8Decode(Tail(b))

\* base64 digits, and the padding character
B64Alphabet ==
  <<"A", "B", "C", "D", "E", "F", "G", "H", "I", "J", "K", "L", "M",
    "N", "O", "P", "Q", "R", "S", "T", "U", "V", "W", "X", "Y", "Z",
    "a", "b", "c", "d", "e", "f", "g", "h", "i", "j", "k", "l", "m",
    "n", "o", "p", "q", "r", "s", "t", "u", "v", "w", "x", "y", "z",
    "0", "1", "2", "3", "4", "5", "6", "7", "8", "9", "+", "/">>
B64Pad == "="
B64Digit(v) == B64Alphabet[v + 1]
B64Value(d) == (CHOOSE i \in 1..Len(B64Alphabet) : B64Alphabet[i] = d) - 1

\* Buffer.toString('base64'): three bytes become four digits
RECURSIVE Base64Encode(_)
Base64Encode(b) ==
  IF b = << >> THEN << >>
  ELSE IF Len(b) = 1
    THEN <<B64Digit(b[1] \div 4), B64Digit((b[1] % 4) * 16), B64Pad, B64Pad>>
  ELSE IF Len(b) = 2
    THEN <<B64Digit(b[1] \div 4),
           B64Digit((b[1] % 4) * 16 + b[2] \div 16),
           B64Digit((b[2] % 16) * 4), B64Pad>>
  ELSE <<B64Digit(b[1] \div 4),
         B64Digit((b[1] % 4) * 16 + b[2] \div 16),
         B64Digit((b[2] % 16) * 4 + b[3] \div 64),
         B64Digit(b[3] % 64)>> \o Base64Encode(SubSeq(b, 4, Len(b)))

\* `base64 -d`: newlines are skipped, four digits become up to three bytes
RECURSIVE Base64Decode(_)
Base64Decode(t) ==
  IF t = << >> THEN << >>
  ELSE IF Head(t) = "\n" THEN Base64Decode(Tail(t))
  ELSE IF Len(t) < 4 THEN << >>
  ELSE LET v1 == B64Value(t[1])
           v2 == B64Value(t[2])
       IN IF t[3] = B64Pad THEN <<v1 * 4 + v2 \div 16>>
          ELSE IF t[4] = B64Pad
            THEN <<v1 * 4 + v2 \div 16,
                   (v2 % 16) * 16 + B64Value(t[3]) \div 4>>
          ELSE <<v1 * 4 + v2 \div 16,
                 (v2 % 16) * 16 + B64Value(t[3]) \div 4,
                 (B64Value(t[3]) % 4) * 64 + B64Value(t[4])>>
               \o Base64Decode(SubSeq(t, 5, Len(t)))

\* DaytonaProvider.writeFile fallback: the five replace() calls; the
\* backslash is replaced first, so each character maps on its own
EscapeChar(ch) ==
  CASE ch = "\\" -> <<"\\", "\\">>
    [] ch = "\"" -> <<"\\", "\"">>
    [] ch = "$" -> <<"\\", "$">>
    [] ch = Backtick -> <<"\\", Backtick>>
    [] ch = "\n" -> <<"\\", "n">>
    [] OTHER -> <<ch>>

RECURSIVE Escape(_)
Escape(s) ==
  IF s = << >> THEN << >> ELSE EscapeChar(Head(s)) \o Escape(Tail(s))

\* sh, text inside double quotes: a backslash quotes \ " $ ` and stays in
\* front of any other character
RECURSIVE DoubleQuoted(_)
DoubleQuoted(w) ==
  IF w = << >> THEN << >>
  ELSE IF Head(w) = "\\" /\ Len(w) >= 2 /\ w[2] \in {"\\", "\"", "$", Backtick}
    THEN <<w[2]>> \o DoubleQuoted(Tail(Tail(w)))
  ELSE <<Head(w)>> \o DoubleQuoted(Tail(w))

\* sh, text inside single quotes: literal up to the next single quote
RECURSIVE SingleQuoted(_)
SingleQuoted(w) ==
  IF w = << >> \/ Head(w) = "'" THEN << >>
  ELSE <<Head(w)>> \o SingleQuoted(Tail(w))

\* /bin/sh of the remote image: dash's echo expands backslash escapes,
\* bash's does not
Shells == {"dash", "bash"}

RECURSIVE EchoEscapes(_)
EchoEscapes(w) ==
  IF w = << >> THEN << >>
  ELSE IF Head(w) = "\\" /\ Len(w) >= 2 /\ w[2] = "n"
    THEN <<"\n">> \o EchoEscapes(Tail(Tail(w)))
  ELSE IF Head(w) = "\\" /\ Len(w) >= 2 /\ w[2] = "\\"
    THEN <<"\\">> \o EchoEscapes(Tail(Tail(w)))
  ELSE <<Head(w)>> \o EchoEscapes(Tail(w))

\* echo: the argument, then a newline
Echo(shell, w) ==
  (IF shell = "dash" THEN EchoEscapes(w) ELSE w) \o <<"\n">>

\* a path argument: absolute (leading '/') or relative, and its segments
Rel(segs) == [abs |-> FALSE, segs |-> segs]
Abs(segs) == [abs |-> TRUE, segs |-> segs]
FilePaths == {Rel(<<"f.txt">>), Rel(<<"app", "f.txt">>), Abs(<<"tmp", "f.txt">>)}

\* WORKING_DIR = 'app' (Compute); the configured workingDirectory, an
\* absolute directory (Vercel, Daytona)
WorkingDirOf(k) ==
  IF k \in ComputeKinds THEN Rel(<<"app">>) ELSE Abs(<<"work">>)

\* `${dir}/${path}`; the remote collapses a doubled slash
Join(dir, path) == [abs |-> dir.abs, segs |-> dir.segs \o path.segs]

\* path.startsWith('app/')
StartsWithApp(path) ==
  ~path.abs /\ Len(path.segs) >= 2 /\ path.segs[1] = "app"

\* fullPath of writeFile
\*   compute       : resolvePath(path)
\*   compute_v0    : path.startsWith('app/') ? path : `app/${path}`
\*   vercel,daytona: path.startsWith('/') ? path : `${workingDir}/${path}`
ResolveWrite(k, path) ==
  IF k = "compute_v0"
    THEN (IF StartsWithApp(path) THEN path ELSE Join(Rel(<<"app">>), path))
    ELSE (IF path.abs THEN path ELSE Join(WorkingDirOf(k), path))

\* fullPath of readFile, computed by the same expressions as in writeFile
ResolveRead(k, path) ==
  IF k = "compute_v0"
    THEN (IF StartsWithApp(path) THEN path ELSE Join(Rel(<<"app">>), path))
    ELSE (IF path.abs THEN path ELSE Join(WorkingDirOf(k), path))

\* the remote location a full path names; a relative one starts at the
\* directory remote commands run in
Location(full) == IF full.abs THEN full.segs ELSE <<"~">> \o full.segs

\* how writeFile moves the content
\*   Compute: sandbox.writeFile / sandbox.filesystem.writeFile
\*   Vercel : echo '<base64>' | base64 -d > '<path>'
\*   Daytona: filesystem.writeFile when the SDK has it, else
\*            echo "<escaped>" > "<path>"
WriteMechanism(k, hasFs) ==
  IF k \in ComputeKinds THEN "native"
  ELSE IF k \in VercelKinds THEN "base64"
  ELSE IF hasFs THEN "native" ELSE "echo"

\* the content as it appears inside the shell command text
ShellPayload(mech, content) ==
  IF mech = "base64" THEN Base64Encode(Utf8Encode(content))
  ELSE IF mech = "echo" THEN Escape(content)
  ELSE << >>

\* the bytes the remote file holds after the write
StoredBytes(mech, shell, content) ==
  IF mech = "base64"
    THEN Base64Decode(Echo(shell, SingleQuoted(ShellPayload(mech, content))))
  ELSE IF mech = "echo"
    THEN Utf8Encode(Echo(shell, DoubleQuoted(ShellPayload(mech, content))))
  ELSE Utf8Encode(content)

\* writeFile with the data it moves
writeFileContent(p) ==
  IF NoActiveSandbox(p) THEN Rejected(p, "writeFile")
  ELSE \E path \in FilePaths, content \in Contents, hasFs \in BOOLEAN,
          shell \in Shells, fails \in BOOLEAN :
    LET k == kind[p]
        mech == WriteMechanism(k, hasFs)
        full == ResolveWrite(k, path)
    IN
    /\ k \notin DaytonaKinds => hasFs
    /\ mech = "native" => shell = "dash"
    /\ fails => content = << >> /\ shell = "dash"
    /\ workingDir' = EnsureWorkingDir(p)
    /\ existingFiles' = IF ~fails /\ k \notin ComputeKinds
                          THEN [existingFiles EXCEPT ![p] = @ \cup {path}]
                          ELSE existingFiles
    /\ remoteFs' = IF fails THEN remoteFs
                   ELSE [loc |-> Location(full),
                         bytes |-> StoredBytes(mech, shell, content),
                         path |-> path, wrote |-> content]
    /\ ret' = [op |-> "writeFile", ok |-> ~fails, path |-> path,
               full |-> full, mech |-> mech,
               payload |-> IF fails THEN << >>
                           ELSE ShellPayload(mech, content)]
    /\ last' = Last(p, "writeFile", IF fails THEN "error" ELSE "ok", 2,
                    NoResult, fails, 0)
    /\ UNCHANGED <<kind, sandbox, sandboxInfo, remote, nextSid, destroyCalls,
                   autoRestartVite, sandboxes, activeSandboxId, now, task,
                   mlast, statusCheck, tree>>

\* readFile with the data it returns: filesystem.readFile (vercel_v0,
\* Daytona when the SDK has it) or the stdout of `cat <fullPath>`
readFileContent(p) ==
  IF NoActiveSandbox(p) THEN Rejected(p, "readFile")
  ELSE \E path \in FilePaths, throws \in BOOLEAN :
    LET k == kind[p]
        full == ResolveRead(k, path)
        found == remoteFs # NoFile /\ remoteFs.loc = Location(full)
        ok == found /\ ~throws
    IN
    /\ workingDir' = EnsureWorkingDir(p)
    /\ ret' = [op |-> "readFile", ok |-> ok, path |-> path, full |-> full,
               out |-> IF ok THEN Utf8Decode(remoteFs.bytes) ELSE << >>]
    /\ last' = Last(p, "readFile", IF ok THEN "ok" ELSE "error", 1,
                    NoResult, throws, 0)
    /\ UNCHANGED <<kind, sandbox, sandboxInfo, existingFiles, remote, nextSid,
                   destroyCalls, autoRestartVite, sandboxes, activeSandboxId,
                   now, task, mlast, statusCheck, remoteFs, tree>>

(* ----------------------- provider: listFiles data --------------------- *)
\* the -not -path "*/<name>/*" patterns of the find commands
ExcludedDirs == {"node_modules", ".git", ".next", "dist", "build"}

\* regular files the remote working directory may hold, as paths below it
TreeFiles ==
  {<<"package.json">>, <<"src", "App.jsx">>, <<"node_modules", "x.js">>,
   <<"src", "dist", "y.js">>}
\* directories below the working directory a caller may name
SubDirs == {<<"src">>, <<"node_modules">>}
\* listFiles() called without argument
NoDir == [abs |-> FALSE, segs |-> <<"<default>">>]

\* the directory argument that names <working directory>/sub for class k
SubDirArg(k, sub) ==
  IF k = "compute" THEN Rel(sub) ELSE Join(WorkingDirOf(k), Rel(sub))

\* ComputeProvider.resolvePath of compute-provider.ts
resolvePath(path) ==
  IF path.segs = << >> THEN Rel(<<"app">>)
  ELSE IF path.abs THEN path
  ELSE Join(Rel(<<"app">>), path)

\* the directory the listing command is run on
\*   compute   : resolvePath(directory), directory defaults to WORKING_DIR
\*   compute_v0: directory, defaults to 'app'
\*   Vercel, Daytona: directory || workingDirectory
ListedDir(k, dir) ==
  LET given == IF dir = NoDir THEN WorkingDirOf(k) ELSE dir
  IN IF k = "compute" THEN resolvePath(given) ELSE given

IsPrefix(a, b) == Len(a) <= Len(b) /\ SubSeq(b, 1, Len(a)) = a
Below(a, b) == SubSeq(b, Len(a) + 1, Len(b))

\* locations of the regular files of the session
FileLocations(k, t) == {Location(WorkingDirOf(k)) \o f : f \in t}

\* a directory exists when it is the working directory or holds a file
DirExists(k, t, loc) ==
  \/ loc = Location(WorkingDirOf(k))
  \/ \E f \in FileLocations(k, t) : IsPrefix(loc, f) /\ f # loc

\* find's -path "*/<name>/*" on a printed path: `*` also matches slashes,
\* so <name> must be a segment with a slash before and after it
PathMatches(abs, segs, name) ==
  \E i \in 1..Len(segs) :
    segs[i] = name /\ i < Len(segs) /\ (i > 1 \/ abs)

\* the lines of `find <dir> -type f -not -path ...` (Vercel, printed with
\* <dir> in front) or `cd <dir> && find . -type f -not -path ...` (Daytona,
\* printed with ./ in front), already cut back to the part below <dir>
FindLines(k, t, dir) ==
  LET loc == Location(dir)
      start == IF k \in DaytonaKinds THEN Rel(<<".">>) ELSE dir
  IN {Below(loc, f) :
        f \in {g \in FileLocations(k, t) :
                 /\ IsPrefix(loc, g) /\ g # loc
                 /\ \A name \in ExcludedDirs :
                      ~PathMatches(start.abs, start.segs \o Below(loc, g),
                                   name)}}

\* the lines of `ls -1 <dir>`: the names of the entries of <dir>
LsLines(k, t, dir) ==
  LET loc == Location(dir)
  IN {<<Below(loc, f)[1]>> :
        f \in {g \in FileLocations(k, t) : IsPrefix(loc, g) /\ g # loc}}

\* listFiles with the paths it returns; a command that exits nonzero
\* (missing directory, or any other failure) gives []
listFilesTree(p) ==
  IF NoActiveSandbox(p) THEN Rejected(p, "listFiles")
  ELSE \E dir \in {NoDir} \cup {SubDirArg(kind[p], sub) : sub \in SubDirs},
          throws \in BOOLEAN, fails \in BOOLEAN :
    LET k == kind[p]
        full == ListedDir(k, dir)
        nonzero == fails \/ ~DirExists(k, tree, Location(full))
        lines == IF k \in ComputeKinds THEN LsLines(k, tree, full)
                 ELSE FindLines(k, tree, full)
    IN
    /\ throws => ~fails
    /\ workingDir' = EnsureWorkingDir(p)
    /\ ret' = [op |-> "listFiles", ok |-> ~throws, dir |-> dir,
               loc |-> Location(full), failed |-> fails,
               out |-> IF throws \/ nonzero THEN {} ELSE lines]
    /\ last' = Last(p, "listFiles", IF throws THEN "error" ELSE "ok", 1,
                    NoResult, throws, 0)
    /\ UNCHANGED <<kind, sandbox, sandboxInfo, existingFiles, remote, nextSid,
                   destroyCalls, autoRestartVite, sandboxes, activeSandboxId,
                   now, task, mlast, statusCheck, remoteFs, tree>>

(* ------------------------ SandboxFactory.create ----------------------- *)
\* an argument that was not passed, an environment variable that is not set
NoName == <<"undefined">>
NoConfig == "undefined"

\* names are sequences of characters
UpperLetters ==
  <<"A", "B", "C", "D", "E", "F", "G", "H", "I", "J", "K", "L", "M",
    "N", "O", "P", "Q", "R", "S", "T", "U", "V", "W", "X", "Y", "Z">>

LowerLetters ==
  <<"a", "b", "c", "d", "e", "f", "g", "h", "i", "j", "k", "l", "m",
    "n", "o", "p", "q", "r", "s", "t", "u", "v", "w", "x", "y", "z">>

LowerChar(c) ==
  IF \E i \in 1..Len(UpperLetters) : UpperLetters[i] = c
    THEN LowerLetters[CHOOSE i \in 1..Len(UpperLetters) : UpperLetters[i] = c]
    ELSE c

\* String.prototype.toLowerCase, without it
ToLowerCase_identity(s) == s

\* String.prototype.toLowerCase on the characters of the model
ToLowerCase(s) == [i \in 1..Len(s) |-> LowerChar(s[i])]

\* the case labels of the switch
Name_e2b == <<"e", "2", "b">>
Name_vercel == <<"v", "e", "r", "c", "e", "l">>
Name_daytona == <<"d", "a", "y", "t", "o", "n", "a">>
Name_modal == <<"m", "o", "d", "a", "l">>
Name_compute == <<"c", "o", "m", "p", "u", "t", "e">>

\* the list in the message of the default branch
SupportedProviders ==
  <<Name_e2b, Name_vercel, Name_daytona, Name_modal, Name_compute>>

\* what a caller passes as `provider`
ProviderArgs ==
  { NoName, << >>,
    Name_e2b, <<"E", "2", "B">>,
    Name_vercel, <<"V", "e", "r", "c", "e", "l">>,
    Name_daytona, <<"D", "A", "Y", "T", "O", "N", "A">>,
    Name_modal, <<"m", "o", "d", "a", "L">>,
    Name_compute, <<"C", "o", "m", "p", "u", "t", "e">>,
    <<"a", "w", "s">>, <<"e", "2", "b", " ">>, <<"E", "2">> }

\* what process.env.SANDBOX_PROVIDER holds
EnvSettings ==
  { NoName, << >>, Name_e2b, <<"V", "E", "R", "C", "E", "L">>, Name_daytona,
    <<"M", "o", "d", "a", "l">>, Name_compute, <<"G", "C", "P">> }

Configs == {NoConfig, "config"}

\* JavaScript truthiness of an optional string
Truthy(s) == s # NoName /\ s # << >>

\* provider || process.env.SANDBOX_PROVIDER || 'e2b'
selectedProvider(provider, env) ==
  IF Truthy(provider) THEN provider
  ELSE IF Truthy(env) THEN env
  ELSE Name_e2b

\* config || {}
ConstructorConfig(config) == IF config = NoConfig THEN "{}" ELSE config

\* the switch over selectedProvider.toLowerCase(): the class constructed
\* ("none" in the default branch, which throws)
SwitchCase(lower) ==
  CASE lower = Name_e2b -> "E2BProvider"
    [] lower = Name_vercel -> "VercelProvider"
    [] lower = Name_daytona -> "DaytonaProvider"
    [] lower = Name_modal -> "ModalProvider"
    [] lower = Name_compute -> "ComputeProvider"
    [] OTHER -> "none"

\* SandboxFactory.create(provider, config) under a SANDBOX_PROVIDER setting
create(provider, env, config) ==
  LET selected == selectedProvider(provider, env)
      class == SwitchCase(ToLowerCase(selected))
  IN IF class # "none"
       THEN [op |-> "create", provider |-> provider, env |-> env,
             ok |-> TRUE, built |-> class,
             config |-> ConstructorConfig(config),
             err |-> << >>, supported |-> << >>]
       ELSE [op |-> "create", provider |-> provider, env |-> env,
             ok |-> FALSE, built |-> "none", config |-> NoConfig,
             err |-> selected, supported |-> SupportedProviders]

\* a caller invokes SandboxFactory.create
callCreate ==
  \E provider \in ProviderArgs, env \in EnvSettings, config \in Configs :
    /\ ret' = create(provider, env, config)
    /\ UNCHANGED <<pvars, sandboxes, activeSandboxId, now, task, mlast,
                   statusCheck, remoteFs, tree>>

(* ------------------ SandboxFactory.isProviderAvailable ---------------- *)
\* the environment variables the predicate reads
EnvVars ==
  {"E2B_API_KEY", "VERCEL_OIDC_TOKEN", "VERCEL_TOKEN", "VERCEL_TEAM_ID",
   "VERCEL_PROJECT_ID", "DAYTONA_API_KEY", "MODAL_TOKEN_ID",
   "MODAL_TOKEN_SECRET", "COMPUTESDK_API_KEY"}

\* process.env: every variable unset or holding a key; E2B_API_KEY may also
\* hold the empty string
Environments ==
  {e \in [EnvVars -> {NoName, << >>, <<"k">>}] :
     \A v \in EnvVars \ {"E2B_API_KEY"} : e[v] # << >>}

\* what a caller passes as `provider`
AvailabilityArgs ==
  { << >>, Name_e2b, <<"E", "2", "B">>, Name_vercel,
    <<"D", "a", "y", "t", "o", "n", "a">>, Name_modal,
    <<"C", "O", "M", "P", "U", "T", "E">>, <<"a", "w", "s">> }

\* the vercel case with the OIDC token required as well
VercelAvailable_and(env) ==
  /\ Truthy(env["VERCEL_OIDC_TOKEN"])
  /\ Truthy(env["VERCEL_TOKEN"])
  /\ Truthy(env["VERCEL_TEAM_ID"])
  /\ Truthy(env["VERCEL_PROJECT_ID"])

\* !!VERCEL_OIDC_TOKEN || (!!VERCEL_TOKEN && !!VERCEL_TEAM_ID &&
\* !!VERCEL_PROJECT_ID)
VercelAvailable(env) ==
  \/ Truthy(env["VERCEL_OIDC_TOKEN"])
  \/ /\ Truthy(env["VERCEL_TOKEN"])
     /\ Truthy(env["VERCEL_TEAM_ID"])
     /\ Truthy(env["VERCEL_PROJECT_ID"])

\* SandboxFactory.isProviderAvailable(provider) under the environment env
isProviderAvailable(provider, env) ==
  LET lower == ToLowerCase(provider)
  IN CASE lower = Name_e2b -> Truthy(env["E2B_API_KEY"])
       [] lower = Name_vercel -> VercelAvailable(env)
       [] lower = Name_daytona -> Truthy(env["DAYTONA_API_KEY"])
       [] lower = Name_modal ->
            Truthy(env["MODAL_TOKEN_ID"]) /\ Truthy(env["MODAL_TOKEN_SECRET"])
       [] lower = Name_compute -> Truthy(env["COMPUTESDK_API_KEY"])
       [] OTHER -> FALSE

\* a caller invokes SandboxFactory.isProviderAvailable: nothing is
\* constructed and nothing but the returned value is produced
callIsProviderAvailable ==
  \E provider \in AvailabilityArgs, env \in Environments :
    /\ ret' = [op |-> "isProviderAvailable", provider |-> provider,
               env |-> env, out |-> isProviderAvailable(provider, env),
               built |-> "none"]
    /\ UNCHANGED <<pvars, sandboxes, activeSandboxId, now, task, mlast,
                   statusCheck, remoteFs, tree>>

(* ---------------- route create-ai-sandbox-v2: POST -------------------- *)
\* requests to the route that may be in flight together
Requests == {1, 2}

\* a request
\*   pc       : "idle"; "cleanAll" (awaiting terminateAll of the try block);
\*              "cleaned" (resumed after it);
\*              "legacy" (awaiting global.activeSandboxProvider.terminate());
\*              "create" (awaiting provider.createSandbox());
\*              "setup" (awaiting provider.setupViteApp());
\*              "register" (resumed after setupViteApp);
\*              "catch", "catchAll", "catchCleaned", "catchLegacy" (the
\*              same steps in the catch block);
\*              "done" (success response), "failed" (error response)
\*   slot     : the asynchronous call the request awaits
\*   provider : the instance SandboxFactory.create() returned to it
\*   sid      : the session its provider.createSandbox() returned
\*   legacy   : the global.activeSandboxProvider it is terminating
NoRequest == [pc |-> "idle", slot |-> 0, provider |-> NoProvider,
              sid |-> NoSession, legacy |-> NoProvider]

\* sandboxInfo.sandboxId of a session, as the registry key
SandboxIdOf(sid) == IF sid = 1 THEN "a" ELSE "b"

\* sandboxManager.terminateAll() is called: it runs up to its await
RouteTerminateAll(r, pc) ==
  \E t \in Tasks :
    /\ terminateAllStart(t)
    /\ request' = [request EXCEPT ![r].pc = pc, ![r].slot = t]
    /\ UNCHANGED activeSandboxProvider

\* terminateAll() has returned to the request
RouteAfterTerminateAll(r, pc) ==
  /\ terminateAllFinish(request[r].slot)
  /\ request' = [request EXCEPT ![r].pc = pc, ![r].slot = 0]
  /\ UNCHANGED activeSandboxProvider

\* `if (global.activeSandboxProvider)`: its terminate() is called and runs
\* up to its await; else the block is skipped
RouteLegacyTest(r, legacyPc, nextPc) ==
  LET g == activeSandboxProvider
      E == {[id |-> NoId, p |-> g]}
  IN IF g = NoProvider
       THEN /\ request' = [request EXCEPT ![r].pc = nextPc]
            /\ UNCHANGED <<pvars, mvars, activeSandboxProvider>>
       ELSE \E t \in Tasks :
              /\ FreeSlot(t)
              /\ InvokeTerminate(E)
              /\ task' = [task EXCEPT ![t] =
                            [Idle EXCEPT !.op = "legacy", !.pc = "await",
                                         !.pend = PendOf(E)]]
              /\ request' = [request EXCEPT ![r].pc = legacyPc,
                                            ![r].slot = t, ![r].legacy = g]
              /\ UNCHANGED <<activeSandboxId, now, statusCheck, fvars,
                             mlast, activeSandboxProvider>>

\* the awaited terminate() of the legacy provider has settled (a throw is
\* caught); global.activeSandboxProvider = null
RouteLegacyTerminated(r, nextPc) ==
  /\ task[request[r].slot].pend = {}
  /\ task' = [task EXCEPT ![request[r].slot] = Idle]
  /\ activeSandboxProvider' = NoProvider
  /\ request' = [request EXCEPT ![r].pc = nextPc, ![r].slot = 0,
                                ![r].legacy = NoProvider]
  /\ UNCHANGED <<pvars, sandboxes, activeSandboxId, now, statusCheck,
                 fvars, mlast>>

\* the request enters the handler: await sandboxManager.terminateAll()
POSTEnter(r) ==
  /\ request[r].pc = "idle"
  /\ RouteTerminateAll(r, "cleanAll")

POSTCleaned(r) ==
  /\ request[r].pc = "cleanAll"
  /\ RouteAfterTerminateAll(r, "cleaned")

POSTLegacyTest(r) ==
  /\ request[r].pc = "cleaned"
  /\ RouteLegacyTest(r, "legacy", "create")

POSTLegacyTerminated(r) ==
  /\ request[r].pc = "legacy"
  /\ RouteLegacyTerminated(r, "create")

\* SandboxFactory.create() builds an instance; await provider.createSandbox()
\* returns the new session or throws
POSTCreate(r) ==
  \E p \in Providers : \E fault \in CreateFaults(kind[p]) :
    /\ request[r].pc = "create"
    /\ Fresh(p)
    /\ \A q \in Requests : request[q].provider # p
    /\ CreateSandboxBody(p, FALSE, fault)
    /\ request' = [request EXCEPT
                     ![r].pc = IF fault = "none" THEN "setup" ELSE "catch",
                     ![r].provider = p,
                     ![r].sid = IF fault = "none" THEN nextSid
                                ELSE NoSession]
    /\ UNCHANGED <<last, mvars, activeSandboxProvider>>

\* await provider.setupViteApp() returns or throws
POSTSetup(r) ==
  /\ request[r].pc = "setup"
  /\ setupViteApp(request[r].provider)
  /\ request' = [request EXCEPT
                   ![r].pc = IF last'.out = "ok" THEN "register"
                             ELSE "catch"]
  /\ UNCHANGED activeSandboxProvider

\* registerSandbox(sandboxInfo.sandboxId, provider);
\* global.activeSandboxProvider = provider; the success response
POSTRegister(r) ==
  /\ request[r].pc = "register"
  /\ registerSandbox(SandboxIdOf(request[r].sid), request[r].provider)
  /\ activeSandboxProvider' = request[r].provider
  /\ request' = [request EXCEPT ![r].pc = "done"]

\* catch: await sandboxManager.terminateAll()
POSTCatch(r) ==
  /\ request[r].pc = "catch"
  /\ RouteTerminateAll(r, "catchAll")

POSTCatchCleaned(r) ==
  /\ request[r].pc = "catchAll"
  /\ RouteAfterTerminateAll(r, "catchCleaned")

POSTCatchLegacyTest(r) ==
  /\ request[r].pc = "catchCleaned"
  /\ RouteLegacyTest(r, "catchLegacy", "failed")

\* the error response follows
POSTCatchLegacyTerminated(r) ==
  /\ request[r].pc = "catchLegacy"
  /\ RouteLegacyTerminated(r, "failed")

\* a remote destroy awaited by a terminate() of a request returns
RouteDestroyReturns(t) ==
  /\ DestroyReturns(t)
  /\ UNCHANGED rvars

(* ---------- provider operations suspended across a terminate ---------- *)
\* what a statement does with this.sandbox
\*   "deref": this.sandbox.<method>(...) without a test
\*   "guard": a call of a method of the instance that begins with
\*            `if (!this.sandbox) throw new Error('No active sandbox')`
\*   "none" : a timer, this.sandbox is not read
\*   caught : the statement sits in a try whose catch does not rethrow
\*   each statement but a guard ends in an await
Deref == [use |-> "deref", caught |-> FALSE]
DerefCaught == [use |-> "deref", caught |-> TRUE]
Guard == [use |-> "guard", caught |-> FALSE]
Delay == [use |-> "none", caught |-> FALSE]

\* restartViteServer after its own test of this.sandbox
\*   Compute: pkill, 2000 ms, start (not awaited) with the startup delay,
\*            ps, tail
\*   Vercel : pkill in try/catch, 2000 ms, start in try/catch, startup delay
RestartSteps(k) ==
  IF k \in ComputeKinds
    THEN <<Deref, Delay, Deref, Deref, Deref>>
    ELSE <<DerefCaught, Delay, DerefCaught, Delay>>

\* the statements of an operation after its test of this.sandbox
\*   writeFile      : mkdir of the parent directory, the write
\*   installPackages: npm install, then this.restartViteServer()
OpSteps(k, op) ==
  CASE op = "writeFile" -> <<Deref, Deref>>
    [] op = "restartViteServer" -> RestartSteps(k)
    [] op = "installPackages" -> <<Deref, Guard>> \o RestartSteps(k)

SuspendableOps == {"writeFile", "restartViteServer", "installPackages"}

\* no operation has been called
NoPending == [op |-> "none", p |-> NoProvider, rest |-> << >>,
              out |-> "none", cleared |-> FALSE]

\* the statements run until one of them awaits, throws, or the operation
\* returns; null: this.sandbox is null
\*   "TypeError": Cannot read properties of null
RECURSIVE RunSteps(_, _)
RunSteps(rest, null) ==
  IF rest = << >> THEN [out |-> "ok", rest |-> << >>]
  ELSE LET step == Head(rest)
       IN CASE step.use = "guard" ->
                 IF null THEN [out |-> "noActive", rest |-> << >>]
                 ELSE RunSteps(Tail(rest), null)
            [] step.use = "deref" /\ null ->
                 IF step.caught THEN RunSteps(Tail(rest), null)
                 ELSE [out |-> "TypeError", rest |-> << >>]
            [] OTHER -> [out |-> "suspended", rest |-> Tail(rest)]

\* an operation is called: the test of this.sandbox, then the statements up
\* to the first await
OpCalled(p, op) ==
  LET run == RunSteps(OpSteps(kind[p], op), FALSE)
  IN /\ pending.out # "suspended"
     /\ pending' =
          IF NoActiveSandbox(p)
            THEN [op |-> op, p |-> p, rest |-> << >>, out |-> "noActive",
                  cleared |-> FALSE]
            ELSE [op |-> op, p |-> p, rest |-> run.rest, out |-> run.out,
                  cleared |-> FALSE]
     /\ UNCHANGED <<pvars, mvars, activeSandboxProvider, request>>

\* the await of the suspended operation settles: the statements after it
\* run up to the next await, or the operation returns
OpResumes ==
  LET p == pending.p
      null == sandbox[p] = NoSession
      run == RunSteps(pending.rest, null)
  IN /\ pending.out = "suspended"
     /\ pending' = [pending EXCEPT !.out = run.out, !.rest = run.rest,
                                   !.cleared = @ \/ null]
     /\ existingFiles' =
          IF run.out = "ok" /\ pending.op = "writeFile" /\ kind[p] = "vercel"
            THEN [existingFiles EXCEPT ![p] = @ \cup Paths]
            ELSE existingFiles
     /\ UNCHANGED <<kind, sandbox, sandboxInfo, workingDir, remote, nextSid,
                    destroyCalls, autoRestartVite, last, mvars,
                    activeSandboxProvider, request>>

(* ------------------- SandboxInfo.provider of a class ------------------ *)
\* the class file the factory imports under each class name
\*   ComputeProvider: './providers/compute-provider'
ClassKind(class) ==
  CASE class = "ComputeProvider" -> "compute"
    [] class = "VercelProvider" -> "vercel"
    [] class = "DaytonaProvider" -> "daytona"
    [] OTHER -> "none"

\* the `provider:` field createSandbox() of a class writes into sandboxInfo
InfoProvider(k) ==
  CASE k = "compute" -> Name_vercel
    [] k = "compute_v0" -> Name_compute
    [] k \in VercelKinds -> Name_vercel
    [] k \in DaytonaKinds -> Name_daytona

\* the caller of SandboxFactory.create calls createSandbox() on the instance
\* it was handed; ret keeps the selection and takes the SandboxInfo returned
factoryCreateSandbox(p) ==
  \E fault \in CreateFaults(kind[p]) :
    /\ ret.op = "create"
    /\ ret.ok
    /\ ClassKind(ret.built) = kind[p]
    /\ Fresh(p)
    /\ CreateSandboxBody(p, FALSE, fault)
    /\ last' = Last(p, "createSandbox",
                    IF fault = "none" THEN "ok" ELSE "error",
                    1, NoResult, fault # "none", 0)
    /\ ret' = [op |-> "createSandbox",
               selected |-> ToLowerCase(selectedProvider(ret.provider, ret.env)),
               built |-> ret.built,
               ok |-> fault = "none",
               info |-> IF fault = "none" THEN InfoProvider(kind[p])
                        ELSE NoName]
    /\ UNCHANGED <<sandboxes, activeSandboxId, now, task, mlast,
                   statusCheck, remoteFs, tree, rvars>>

(* --------------------------- specifications --------------------------- *)
InitBase ==
  /\ sandbox = [p \in Providers |-> NoSession]
  /\ sandboxInfo = [p \in Providers |-> NoSession]
  /\ workingDir = [p \in Providers |-> FALSE]
  /\ existingFiles = [p \in Providers |-> {}]
  /\ remote = {}
  /\ nextSid = 1
  /\ destroyCalls = [s \in SessionIds |-> 0]
  /\ last = [p |-> NoProvider, op |-> "none", prev |-> "none",
             had |-> FALSE, out |-> "ok",
             calls |-> 0, res |-> NoResult, infra |-> FALSE, restarts |-> 0]
  /\ sandboxes = << >>
  /\ activeSandboxId = NoId
  /\ now = 0
  /\ task = [t \in Tasks |-> Idle]
  /\ mlast = "none"
  /\ statusCheck = NoCheck
  /\ remoteFs = NoFile
  /\ ret = NoReturn
  /\ activeSandboxProvider = NoProvider
  /\ request = [r \in Requests |-> NoRequest]
  /\ pending = NoPending

\* a session without files found on it
InitCommon ==
  /\ InitBase
  /\ tree = {}

\* one provider of any class, with either setting of autoRestartVite
InitProv ==
  /\ InitCommon
  /\ kind \in {f \in [Providers -> Kinds] :
                 \A q \in Providers \ ProvUnderTest : f[q] = "compute"}
  /\ autoRestartVite \in BOOLEAN

NextProv ==
  \/ \E p \in ProvUnderTest : createSandbox(p) /\ UNCHANGED rvars
  \/ \E p \in ProvUnderTest : terminate(p) /\ UNCHANGED rvars
  \/ \E p \in ProvUnderTest : runCommand(p) /\ UNCHANGED rvars
  \/ \E p \in ProvUnderTest : writeFile(p) /\ UNCHANGED rvars
  \/ \E p \in ProvUnderTest : readFile(p) /\ UNCHANGED rvars
  \/ \E p \in ProvUnderTest : listFiles(p) /\ UNCHANGED rvars
  \/ \E p \in ProvUnderTest : installPackages(p) /\ UNCHANGED rvars
  \/ \E p \in ProvUnderTest : setupViteApp(p) /\ UNCHANGED rvars
  \/ \E p \in ProvUnderTest : restartViteServer(p) /\ UNCHANGED rvars

SpecProv == InitProv /\ [][NextProv]_vars

\* provider classes registered with the manager
MgrKinds == {"compute", "vercel", "daytona"}

\* the providers the factory builds in one process are of one class
InitMgr ==
  /\ InitCommon
  /\ kind \in {[p \in Providers |-> k] : k \in MgrKinds}
  /\ autoRestartVite = TRUE

\* the concurrent requests share ComputeProvider instances
InitConc ==
  /\ InitCommon
  /\ kind = [p \in Providers |-> "compute"]
  /\ autoRestartVite = TRUE

\* concurrent requests: calls start while others are suspended
NextMgr ==
  \/ \E p \in Providers : provision(p) /\ UNCHANGED rvars
  \/ \E id \in Ids, p \in Providers : registerSandbox(id, p) /\ UNCHANGED rvars
  \/ \E t \in Tasks, id \in Ids : terminateSandboxStart(t, id) /\ UNCHANGED rvars
  \/ \E t \in Tasks : terminateSandboxFinish(t) /\ UNCHANGED rvars
  \/ \E t \in Tasks : terminateAllStart(t) /\ UNCHANGED rvars
  \/ \E t \in Tasks : terminateAllFinish(t) /\ UNCHANGED rvars
  \/ \E t \in Tasks : DestroyReturns(t) /\ UNCHANGED rvars

SpecMgr == InitConc /\ [][NextMgr]_vars

\* one caller: a call starts only when the previous one has returned
NextReg ==
  \/ Quiet /\ \E p \in Providers : provision(p) /\ UNCHANGED rvars
  \/ Quiet /\ \E id \in Ids, p \in Providers : registerSandbox(id, p) /\ UNCHANGED rvars
  \/ Quiet /\ getActiveProvider /\ UNCHANGED rvars
  \/ Quiet /\ \E id \in Ids : getProvider(id) /\ UNCHANGED rvars
  \/ Quiet /\ \E id \in Ids : setActiveSandbox(id) /\ UNCHANGED rvars
  \/ Quiet /\ \E t \in Tasks, id \in Ids : terminateSandboxStart(t, id) /\ UNCHANGED rvars
  \/ \E t \in Tasks : terminateSandboxFinish(t) /\ UNCHANGED rvars
  \/ Quiet /\ \E t \in Tasks : terminateAllStart(t) /\ UNCHANGED rvars
  \/ \E t \in Tasks : terminateAllFinish(t) /\ UNCHANGED rvars
  \/ Quiet /\ \E t \in Tasks, maxAge \in MaxAges : cleanupStart(t, maxAge) /\ UNCHANGED rvars
  \/ \E t \in Tasks : cleanupInnerFinish(t) /\ UNCHANGED rvars
  \/ \E t \in Tasks : cleanupResume(t) /\ UNCHANGED rvars
  \/ \E t \in Tasks : DestroyReturns(t) /\ UNCHANGED rvars
  \/ Quiet /\ Tick /\ UNCHANGED rvars

SpecReg == InitMgr /\ [][NextReg]_vars

\* provider classes of the processes that look sessions up by id
RecKinds == E2BKinds \cup {"vercel"}

InitRec ==
  /\ InitCommon
  /\ kind \in {[p \in Providers |-> k] : k \in RecKinds}
  /\ autoRestartVite = TRUE

\* one caller that looks sessions up, registers them and retires them
NextRec ==
  \/ Quiet /\ \E id \in Ids, p \in Providers, reconnected \in BOOLEAN :
                getOrCreateProvider(id, p, reconnected) /\ UNCHANGED rvars
  \/ Quiet /\ \E id \in Ids, p \in Providers : registerSandbox(id, p) /\ UNCHANGED rvars
  \/ Quiet /\ \E id \in Ids : setActiveSandbox(id) /\ UNCHANGED rvars
  \/ Quiet /\ \E t \in Tasks, id \in Ids : terminateSandboxStart(t, id) /\ UNCHANGED rvars
  \/ \E t \in Tasks : terminateSandboxFinish(t) /\ UNCHANGED rvars
  \/ \E t \in Tasks : DestroyReturns(t) /\ UNCHANGED rvars
  \/ Quiet /\ Tick /\ UNCHANGED rvars

SpecRec == InitRec /\ [][NextRec]_vars

\* createSandbox of one ComputeProvider, one awaited call at a time
InitStatus ==
  /\ InitCommon
  /\ kind = [p \in Providers |-> "compute"]
  /\ autoRestartVite = TRUE

NextStatus ==
  \/ \E p \in ProvUnderTest : createSandboxEnter(p) /\ UNCHANGED rvars
  \/ \E p \in ProvUnderTest : PollReturns(p) /\ UNCHANGED rvars
  \/ \E p \in ProvUnderTest : WaitElapses(p) /\ UNCHANGED rvars
  \/ \E p \in ProvUnderTest : InstallReturns(p) /\ UNCHANGED rvars
  \/ \E p \in ProvUnderTest : RecheckReturns(p) /\ UNCHANGED rvars
  \/ \E p \in ProvUnderTest : createSandboxLeave(p) /\ UNCHANGED rvars

SpecStatus == InitStatus /\ [][NextStatus]_vars


\* one provider of any class whose caller writes a file and reads it back
InitFiles ==
  /\ InitCommon
  /\ kind \in {f \in [Providers -> Kinds] :
                 \A q \in Providers \ ProvUnderTest : f[q] = "compute"}
  /\ autoRestartVite = TRUE

\* the caller writes one file and then reads paths back
NextFiles ==
  \/ \E p \in ProvUnderTest : provision(p) /\ UNCHANGED rvars
  \/ remoteFs = NoFile /\ \E p \in ProvUnderTest : writeFileContent(p) /\ UNCHANGED rvars
  \/ \E p \in ProvUnderTest : readFileContent(p) /\ UNCHANGED rvars

SpecFiles == InitFiles /\ [][NextFiles]_vars

\* one provider of any class on a session that holds any of the files
InitList ==
  /\ InitBase
  /\ tree \in SUBSET TreeFiles
  /\ kind \in {f \in [Providers -> Kinds] :
                 \A q \in Providers \ ProvUnderTest : f[q] = "compute"}
  /\ autoRestartVite = TRUE

NextList ==
  \/ \E p \in ProvUnderTest : provision(p) /\ UNCHANGED rvars
  \/ \E p \in ProvUnderTest : listFilesTree(p) /\ UNCHANGED rvars

SpecList == InitList /\ [][NextList]_vars

\* SandboxFactory.create and isProviderAvailable called with every argument
\* and setting
InitFactory == InitCommon /\ kind = [p \in Providers |-> "compute"]
                          /\ autoRestartVite = TRUE

NextFactory ==
  \/ callCreate /\ UNCHANGED rvars
  \/ ret.op # "isProviderAvailable" /\ callIsProviderAvailable /\ UNCHANGED rvars

SpecFactory == InitFactory /\ [][NextFactory]_vars

\* the slot of the one asynchronous manager call in flight
AsyncSlot == {1}

\* every manager operation of one process: one asynchronous call
\* (terminateSandbox, terminateAll, cleanup) may be suspended at its await
\* while the synchronous calls and the clock interleave with it
InitAll == InitConc

NextAll ==
  \/ \E p \in Providers : provision(p) /\ UNCHANGED rvars
  \/ \E id \in Ids, p \in Providers : getOrCreateProvider(id, p, FALSE) /\ UNCHANGED rvars
  \/ \E id \in Ids, p \in Providers : registerSandbox(id, p) /\ UNCHANGED rvars
  \/ getActiveProvider /\ UNCHANGED rvars
  \/ \E id \in Ids : getProvider(id) /\ UNCHANGED rvars
  \/ \E id \in Ids : setActiveSandbox(id) /\ UNCHANGED rvars
  \/ \E t \in AsyncSlot, id \in Ids : terminateSandboxStart(t, id) /\ UNCHANGED rvars
  \/ \E t \in AsyncSlot : terminateSandboxFinish(t) /\ UNCHANGED rvars
  \/ \E t \in AsyncSlot : terminateAllStart(t) /\ UNCHANGED rvars
  \/ \E t \in AsyncSlot : terminateAllFinish(t) /\ UNCHANGED rvars
  \/ \E t \in AsyncSlot, maxAge \in MaxAges : cleanupStart(t, maxAge) /\ UNCHANGED rvars
  \/ \E t \in AsyncSlot : cleanupInnerFinish(t) /\ UNCHANGED rvars
  \/ \E t \in AsyncSlot : cleanupResume(t) /\ UNCHANGED rvars
  \/ \E t \in AsyncSlot : DestroyReturns(t) /\ UNCHANGED rvars
  \/ Tick /\ UNCHANGED rvars

SpecAll == InitAll /\ [][NextAll]_vars

\* requests to create-ai-sandbox-v2, each handled once, interleaved at
\* their awaits
InitRoute == InitConc

NextRoute ==
  \/ \E r \in Requests : POSTEnter(r) /\ UNCHANGED pending
  \/ \E r \in Requests : POSTCleaned(r) /\ UNCHANGED pending
  \/ \E r \in Requests : POSTLegacyTest(r) /\ UNCHANGED pending
  \/ \E r \in Requests : POSTLegacyTerminated(r) /\ UNCHANGED pending
  \/ \E r \in Requests : POSTCreate(r) /\ UNCHANGED pending
  \/ \E r \in Requests : POSTSetup(r) /\ UNCHANGED pending
  \/ \E r \in Requests : POSTRegister(r) /\ UNCHANGED pending
  \/ \E r \in Requests : POSTCatch(r) /\ UNCHANGED pending
  \/ \E r \in Requests : POSTCatchCleaned(r) /\ UNCHANGED pending
  \/ \E r \in Requests : POSTCatchLegacyTest(r) /\ UNCHANGED pending
  \/ \E r \in Requests : POSTCatchLegacyTerminated(r) /\ UNCHANGED pending
  \/ \E t \in Tasks : RouteDestroyReturns(t)

SpecRoute == InitRoute /\ [][NextRoute]_vars

\* provider classes of the operations followed across their awaits
AwaitKinds == {"compute", "vercel"}

\* one provider instance: an operation suspended at an await while
\* terminate() is called and completes
InitAwait ==
  /\ InitCommon
  /\ kind \in {f \in [Providers -> AwaitKinds] :
                 \A q \in Providers \ ProvUnderTest : f[q] = "compute"}
  /\ autoRestartVite = TRUE

NextAwait ==
  \/ \E p \in ProvUnderTest : provision(p) /\ UNCHANGED rvars
  \/ \E p \in ProvUnderTest : terminate(p) /\ UNCHANGED rvars
  \/ \E p \in ProvUnderTest, op \in SuspendableOps : OpCalled(p, op)
  \/ OpResumes

SpecAwait == InitAwait /\ [][NextAwait]_vars

\* the factory builds an instance and its caller creates the session before
\* the factory is called again; each provider stands for an instance of one
\* of the classes the factory imports
InitTag ==
  /\ InitCommon
  /\ kind \in [Providers -> {"compute", "vercel", "daytona"}]
  /\ autoRestartVite = TRUE

NextTag ==
  \/ ret.op # "create" /\ callCreate /\ UNCHANGED rvars
  \/ \E p \in Providers : factoryCreateSandbox(p)

SpecTag == InitTag /\ [][NextTag]_vars
(* ------------------------- provider properties ------------------------ *)

\* C1: an I/O operation called while the instance holds no session
\* (this.sandbox is null: before the first createSandbox() or after a
\* terminate() that cleared it) fails with 'No active sandbox' and issues
\* no remote call
C1_NoSessionRejected ==
  (last.op \in IOOps /\ ~last.had) =>
    (last.out = "noActive" /\ last.calls = 0)

\* an I/O operation was rejected on an instance that held a session before
\* and was terminated
C1_Witness ==
  /\ last.op \in IOOps
  /\ last.prev = "terminate"
  /\ ~last.had
  /\ last.out = "noActive"
  /\ nextSid > 1

\* C2: when terminate() has returned the local session state is cleared:
\* isAlive() is false and getSandboxInfo() is null
C2_TerminateClearsState ==
  last.op = "terminate" =>
    (~isAlive(last.p) /\ getSandboxInfo(last.p) = NoSession)

\* C3: terminate() called twice in a row raises no error and isAlive() is
\* false after the first call and after the second call
C3_TerminateIdempotent ==
  (last.op = "terminate" /\ last.prev = "terminate") =>
    (last.out = "ok" /\ ~last.had /\ ~isAlive(last.p))

\* C4: every CommandResult of runCommand and installPackages has
\* success = (exitCode == 0)
C4_SuccessIffExitZero ==
  (last.op \in {"runCommand", "installPackages"} /\ last.res.has) =>
    (last.res.success <=> (last.res.exitCode = 0))

\* C5: when the remote call of runCommand throws, runCommand raises an
\* error and returns no CommandResult
C5_InfraFailurePropagates ==
  (last.op = "runCommand" /\ last.infra) =>
    (last.out = "error" /\ ~last.res.has)

(* -------------------------- manager properties ------------------------ *)
\* the remote session of provider p is allocated and no registry entry
\* refers to p
Leaked(p) ==
  /\ isAlive(p)
  /\ sandbox[p] \in remote
  /\ \A n \in 1..Len(sandboxes) : sandboxes[n].provider # p

\* C6: registerSandbox(id, p2) on an id registered with another provider p1
\* does not leave p1's remote session allocated with no registry entry
\* referring to p1
C6_ReRegisterDoesNotLeak ==
  [][\A id \in Ids, p1 \in Providers, p2 \in Providers :
       (/\ registerSandbox(id, p2)
        /\ ProviderOf(id) = p1
        /\ p1 # p2
        /\ ~Leaked(p1))
       => ~Leaked(p1)']_vars

\* C7: a registry entry is removed only if terminate() was invoked on that
\* entry's provider
C7_NoLostUpdate ==
  [][\A i \in Ids :
       (MapHas(sandboxes, i) /\ ~MapHas(sandboxes', i))
       => MapGet(sandboxes, i).term]_vars

\* C8: no double termination: two manager calls never both have a remote
\* destroy of the same session in flight
C8_NoDoubleTermination ==
  \A t1 \in Tasks, t2 \in Tasks :
    \A i1 \in task[t1].pend, i2 \in task[t2].pend :
      t1 # t2 => i1.sid # i2.sid

\* C9: terminateAll() invokes terminate() on every registered provider
\* before it suspends, and when it returns every invoked terminate() has
\* settled, the registry is empty and the active pointer is null
C9_TerminateAllClears ==
  [][\A t \in Tasks :
       /\ terminateAllStart(t) =>
            /\ MapPairs(sandboxes') = MapPairs(sandboxes)
            /\ \A n \in 1..Len(sandboxes') : sandboxes'[n].term
       /\ terminateAllFinish(t) =>
            /\ task[t].pend = {}
            /\ sandboxes' = << >>
            /\ activeSandboxId' = NoId]_vars

\* terminateAll() has returned after terminating two sessions, the destroy
\* of one of them having thrown
C9_Witness ==
  /\ mlast = "terminateAll"
  /\ sandboxes = << >>
  /\ activeSandboxId = NoId
  /\ \A p \in Providers : ~isAlive(p)
  /\ \E s1 \in SessionIds, s2 \in SessionIds :
       /\ destroyCalls[s1] = 1 /\ s1 \in remote
       /\ destroyCalls[s2] = 1 /\ s2 \notin remote

\* C10: after registerSandbox(id, p) getActiveProvider() returns p and id is
\* the active one, and getProvider of every other id returns what it
\* returned before
C10_RegisterActivatesKeepsOthers ==
  [][\A id \in Ids, p \in Providers :
       registerSandbox(id, p) =>
         /\ activeSandboxId' = id
         /\ ActiveProvider' = p
         /\ \A j \in Ids \ {id} : ProviderOf(j)' = ProviderOf(j)]_vars

\* a second id was registered with another provider: it is the active one
\* and the first id is still registered
C10_Witness ==
  /\ mlast = "registerSandbox"
  /\ Len(sandboxes) = 2
  /\ sandboxes[1].provider # sandboxes[2].provider
  /\ activeSandboxId = sandboxes[2].sandboxId
  /\ ActiveProvider = sandboxes[2].provider

\* C11: when terminateSandbox(id) completes, getProvider(id) returns null;
\* if id was active getActiveProvider() returns null, otherwise the active
\* pointer is unchanged; the entries of the other ids are unchanged
C11_TerminateSandboxPost ==
  [][\A t \in Tasks, id \in Ids :
       /\ (task[t].id = id
           /\ (terminateSandboxFinish(t) \/ cleanupInnerFinish(t))) =>
            /\ ProviderOf(id)' = NoProvider
            /\ (activeSandboxId = id => ActiveProvider' = NoProvider)
            /\ (activeSandboxId # id => activeSandboxId' = activeSandboxId)
            /\ \A j \in Ids \ {id} :
                 MapGet(sandboxes, j)' = MapGet(sandboxes, j)
       /\ (terminateSandboxStart(t, id) /\ ~MapHas(sandboxes, id)) =>
            /\ ProviderOf(id)' = NoProvider
            /\ UNCHANGED <<sandboxes, activeSandboxId>>]_vars

\* terminateSandbox of the active id has returned: the pointer is null and
\* the other id is still registered with its provider
C11_Witness ==
  /\ mlast = "terminateSandbox"
  /\ Len(sandboxes) = 1
  /\ activeSandboxId = NoId
  /\ ActiveProvider = NoProvider
  /\ \E s \in SessionIds : destroyCalls[s] = 1
  /\ \E p \in Providers :
       /\ sandboxes[1].provider # p
       /\ ~isAlive(p)
       /\ isAlive(sandboxes[1].provider)

CleanupPending(t) ==
  ({task[t].id} \cup {task[t].todo[n] : n \in 1..Len(task[t].todo)}) \ {NoId}

\* registered ids the cleanup call in slot t did not select
Survivors(t) == MapKeys(sandboxes) \ CleanupPending(t)

\* C13: cleanup(maxAge) selects every entry whose lastAccessed is more than
\* maxAge before the time of the call and only those, removes the entries it
\* selected and no other, and issues no remote destroy for the session of a
\* provider that an entry it did not select refers to
C13_CleanupEvictsOnlyOld ==
  [][\A t \in Tasks :
       /\ \A maxAge \in MaxAges :
            cleanupStart(t, maxAge) =>
              CleanupPending(t)' =
                {i \in MapKeys(sandboxes) :
                   now - MapGet(sandboxes, i).lastAccessed > maxAge}
       /\ ((\E maxAge \in MaxAges : cleanupStart(t, maxAge))
            \/ cleanupResume(t)) =>
              \A j \in Survivors(t)', s \in SessionIds :
                sandbox[ProviderOf(j)] = s =>
                  destroyCalls'[s] = destroyCalls[s]
       /\ cleanupInnerFinish(t) =>
            /\ MapKeys(sandboxes') = MapKeys(sandboxes) \ {task[t].id}
            /\ task[t].id \in CleanupPending(t)
       /\ (cleanupResume(t) /\ task'[t].pc = "idle") =>
            CleanupPending(t) = {}]_vars

C15_SetActiveOnlyRegistered ==
  [][\A id \in Ids :
       setActiveSandbox(id) =>
         /\ sandboxes' = sandboxes
         /\ IF MapHas(sandboxes, id)
              THEN /\ mlast' = "setActiveSandbox:true"
                   /\ activeSandboxId' = id
              ELSE /\ mlast' = "setActiveSandbox:false"
                   /\ activeSandboxId' = activeSandboxId]_vars

\* setActiveSandbox returned true for the id registered first while another
\* id is registered: the first id is the active one
C15_Witness ==
  /\ mlast = "setActiveSandbox:true"
  /\ Len(sandboxes) = 2
  /\ activeSandboxId = sandboxes[1].sandboxId
  /\ ActiveProvider = sandboxes[1].provider
  /\ sandboxes[1].provider # sandboxes[2].provider

\* C16: no provider instance is referenced by two registry entries
C16_NoSharedProvider ==
  \A m \in 1..Len(sandboxes), n \in 1..Len(sandboxes) :
    m # n => sandboxes[m].provider # sandboxes[n].provider

\* C17: once terminate() has completed on an instance and left it not
\* alive, the next operation on that instance, whatever it is, leaves
\* isAlive() false, and runCommand, writeFile, readFile, listFiles and
\* installPackages are rejected with 'No active sandbox'
C17_TerminatedIsTerminal ==
  [][\A p \in Providers :
       (last.op = "terminate" /\ last.p = p /\ ~isAlive(p)) =>
         /\ ~isAlive(p)'
         /\ last'.op \in {"runCommand", "writeFile", "readFile", "listFiles",
                          "installPackages"} => last'.out = "noActive"]_vars

\* C18: createSandbox() on an instance that holds a session issues the
\* remote destroy of that session whether or not the request of the new
\* session then succeeds, empties the shadow file-set, and when it returns
\* the instance holds a newly allocated session and getSandboxInfo() and
\* getSandboxUrl() are those of that session
C18_RecreateReplacesSession ==
  [][\A p \in Providers, prior \in SessionIds :
       (sandbox[p] = prior /\ last'.op = "createSandbox"
        /\ createSandbox(p)) =>
         /\ destroyCalls'[prior] = destroyCalls[prior] + 1
         /\ existingFiles'[p] = {}
         /\ last'.out = "ok" =>
              /\ isAlive(p)'
              /\ sandbox'[p] # prior
              /\ sandbox'[p] \notin remote
              /\ sandbox'[p] \in remote'
              /\ getSandboxInfo(p)' = sandbox'[p]
              /\ getSandboxUrl(p)' = sandbox'[p]]_vars

\* createSandbox() returned on an instance that held session 1 although the
\* destroy of session 1 threw: the instance describes session 2 and
\* session 1 is still allocated
C18_Witness ==
  /\ last.op = "createSandbox"
  /\ last.had
  /\ last.out = "ok"
  /\ nextSid = 3
  /\ sandbox[last.p] = 2
  /\ getSandboxInfo(last.p) = 2
  /\ destroyCalls[1] = 1
  /\ 1 \in remote

(* ---------------------- readiness check properties -------------------- *)
\* C19: in a readiness check (getComputeStatus), once a status command
\* has reported exit code 0 the check has returned, and no wait, no status
\* command and no install command was issued after that report
C19_SuccessIsImmediate ==
  statusCheck.at0 # << >> =>
    /\ statusCheck.pc = "ok"
    /\ Issued(statusCheck) = statusCheck.at0

\* a check returned on a 0 reported by a later poll of the loop, before
\* the ceiling, after an earlier poll had failed
C19_Witness ==
  /\ statusCheck.pc = "ok"
  /\ statusCheck.at0 # << >>
  /\ statusCheck.polls >= 2
  /\ statusCheck.waits >= 1
  /\ statusCheck.installs = 0
  /\ statusCheck.elapsed < MaxWaitMs

\* C20: a readiness check issues the install command at most once, only
\* when maxWaitMs has elapsed and no status command has reported 0, and
\* once the install command has returned, with any exit code, exactly one
\* more status command has been issued
C20_InstallOnceThenOneCheck ==
  /\ statusCheck.installs <= 1
  /\ statusCheck.installs = 1 =>
       /\ statusCheck.instAt # << >>
       /\ statusCheck.instAt[1] >= MaxWaitMs
       /\ ~statusCheck.instAt[3]
  /\ statusCheck.pc = "install" => statusCheck.polls = statusCheck.instAt[2]
  /\ statusCheck.instRc # NoStatus =>
       statusCheck.polls = statusCheck.instAt[2] + 1
  /\ statusCheck.pc = "recheck" => statusCheck.instRc # NoStatus

\* the install command returned a nonzero exit code, the one status
\* command after it returned, and the check ended
C20_Witness ==
  /\ statusCheck.installs = 1
  /\ statusCheck.instRc = 1
  /\ statusCheck.pc \in {"ok", "failed"}
  /\ statusCheck.status # NoStatus
  /\ statusCheck.polls = statusCheck.instAt[2] + 1

\* status commands the loop can issue: one per interval below the ceiling
MaxPolls == MaxWaitMs \div PollIntervalMs

\* status commands issued by the loop of the check (the one after the
\* install is not one of them)
LoopPolls(c) == IF c.instAt # << >> THEN c.instAt[2] ELSE c.polls

\* C21: the loop of the readiness check issues at least one and at most
\* MaxWaitMs / PollIntervalMs = 20 status commands before the install, a
\* wait of PollIntervalMs was issued between any two consecutive ones, and
\* a status command of the loop is issued only while less than MaxWaitMs
\* has elapsed since the loop began
C21_BoundedPolling ==
  statusCheck.pc \notin {"idle"} /\ statusCheck.polls > 0 =>
    /\ LoopPolls(statusCheck) >= 1
    /\ LoopPolls(statusCheck) <= MaxPolls
    /\ statusCheck.installs = 1 => statusCheck.instAt[2] >= 1
    /\ statusCheck.pc = "poll" =>
         /\ statusCheck.elapsed < MaxWaitMs
         /\ statusCheck.waits = statusCheck.polls - 1
         /\ statusCheck.elapsed >= statusCheck.waits * PollIntervalMs
    /\ statusCheck.pc = "wait" => statusCheck.waits = statusCheck.polls
    /\ statusCheck.installs = 1 => statusCheck.waits = LoopPolls(statusCheck)

\* the loop issued all 20 status commands, each answered at once with a
\* nonzero exit code, and the install was issued at exactly the ceiling
C21_Witness ==
  /\ statusCheck.installs = 1
  /\ statusCheck.instAt[2] = MaxPolls
  /\ statusCheck.instAt[1] = MaxWaitMs
  /\ statusCheck.waits = MaxPolls

\* the status command issued after the install has returned
Rechecked(c) == c.instRc # NoStatus /\ c.pc \in {"ok", "failed"} /\ c.status # NoStatus

\* C22: when the status command issued after the install returns a
\* nonzero exit code, getComputeStatus throws an Error whose message is the
\* remote stderr, or the remote stdout when stderr is empty, and
\* createSandbox rethrows it without setting sandboxInfo; when it returns
\* exit code 0 the check returns, and createSandbox goes on to getUrl and
\* returns the SandboxInfo of the new session
C22_FinalCheckDecides ==
  /\ [](\A p \in Providers :
          (statusCheck.p = p /\ Rechecked(statusCheck)) =>
             IF statusCheck.status # 0
               THEN /\ statusCheck.pc = "failed"
                    /\ statusCheck.stderr # "" =>
                         statusCheck.err = statusCheck.stderr
                    /\ (statusCheck.stderr = "" /\ statusCheck.stdout # "") =>
                         statusCheck.err = statusCheck.stdout
               ELSE /\ statusCheck.pc = "ok"
                    /\ ENABLED (/\ createSandboxLeave(p)
                                /\ last'.out = "ok"
                                /\ getSandboxInfo(p)' = sandbox[p]))
  /\ [][\A p \in Providers :
          (statusCheck.p = p /\ Rechecked(statusCheck)
           /\ createSandboxLeave(p)) =>
             /\ sandbox' = sandbox
             /\ statusCheck.status # 0 =>
                  /\ last'.out = "error"
                  /\ sandboxInfo' = sandboxInfo
             /\ last'.out = "ok" =>
                  /\ statusCheck.status = 0
                  /\ isAlive(p)'
                  /\ getSandboxInfo(p)' = sandbox[p]]_vars

\* the status command after the install returned a nonzero exit code with
\* both stderr and stdout set, and the check threw
C22_Witness ==
  /\ Rechecked(statusCheck)
  /\ statusCheck.status = 1
  /\ statusCheck.stderr # ""
  /\ statusCheck.stdout # ""
  /\ statusCheck.pc = "failed"

(* ----------------------- file content properties ---------------------- *)
\* C23: readFile(p) that follows writeFile(p, c) on the same live session
\* returns exactly c, on every provider and write path
C23_RoundTrip ==
  (ret.op = "readFile" /\ ret.ok /\ ret.path = remoteFs.path) =>
    ret.out = remoteFs.wrote

\* C24: whenever writeFile puts the content into a shell command, what it
\* puts there is the base64 text of the content, and the remote file holds
\* the decoded content
C24_ShellContentIsBase64 ==
  (ret.op = "writeFile" /\ ret.ok /\ ret.mech # "native") =>
    /\ ret.payload = Base64Encode(Utf8Encode(remoteFs.wrote))
    /\ remoteFs.bytes = Utf8Encode(remoteFs.wrote)

\* C25: writeFile and readFile resolve a path alike: a relative path p to
\* <working directory>/p, an absolute path to itself, and for one path
\* both name the same remote location
C25_SamePathResolution ==
  \A p \in ProvUnderTest :
    /\ ret.op \in {"writeFile", "readFile"} =>
         ret.full = IF ret.path.abs THEN ret.path
                    ELSE Join(WorkingDirOf(kind[p]), ret.path)
    /\ \A path \in FilePaths :
         Location(ResolveWrite(kind[p], path)) =
           Location(ResolveRead(kind[p], path))

(* ------------------------- listFiles properties ----------------------- *)
\* the remote location a returned path names
Returned(e) == ret.loc \o e

\* C26: no path listFiles returns names an excluded directory
\* (node_modules, .git, .next, dist, build) or a location below one
C26_ExcludedNeverListed ==
  (ret.op = "listFiles" /\ ret.ok) =>
    \A e \in ret.out : \A i \in 1..Len(Returned(e)) :
      Returned(e)[i] \notin ExcludedDirs

\* the regular files below the listed directory that no excluded
\* directory holds, as paths relative to that directory
Listable(k, t, loc) ==
  {Below(loc, f) :
     f \in {g \in FileLocations(k, t) :
              /\ IsPrefix(loc, g) /\ g # loc
              /\ \A i \in 1..Len(g) : g[i] \notin ExcludedDirs}}

\* C27: listFiles(directory), directory defaulting to the working
\* directory, returns exactly the regular files at any depth below it that
\* lie outside the excluded directories, each relative to directory without
\* a leading ./, and no directory
C27_ListsAllRegularFiles ==
  \A p \in ProvUnderTest :
    (ret.op = "listFiles" /\ ret.ok) =>
      /\ ret.dir = NoDir => ret.loc = Location(WorkingDirOf(kind[p]))
      /\ ~ret.failed => ret.out = Listable(kind[p], tree, ret.loc)
      /\ \A e \in ret.out :
           /\ Head(e) # "."
           /\ Returned(e) \in FileLocations(kind[p], tree)

RestartOrdered(tr) ==
  LET order == <<"kill", "settle", "start", "startup">>
      n == IF Len(tr) < Len(order) THEN Len(tr) ELSE Len(order)
  IN SubSeq(tr, 1, n) = SubSeq(order, 1, n)

\* C29: restartViteServer kills the running dev server, waits the settle
\* delay, starts the dev server in the background, waits the startup delay
\* and returns; the start is never issued before the settle delay
C29_RestartOrder ==
  \A p \in ProvUnderTest :
    (last.op = "restartViteServer" /\ last.p = p /\ last.out # "noActive") =>
      \A f \in RestartFaults(kind[p]) :
        (/\ last.calls = RemoteCalls(RestartTrace(kind[p], f))
         /\ last.infra = RestartThrows(kind[p], f)) =>
           /\ RestartOrdered(RestartTrace(kind[p], f))
           /\ last.out = "ok" => Len(RestartTrace(kind[p], f)) >= 4

(* ------------------------- factory properties ------------------------- *)
\* two names that differ at most in the case of their letters
SameIgnoringCase(a, b) ==
  /\ Len(a) = Len(b)
  /\ \A i \in 1..Len(a) :
       \/ a[i] = b[i]
       \/ \E j \in 1..Len(UpperLetters) :
            {a[i], b[i]} = {UpperLetters[j], LowerLetters[j]}

\* the variant the specification names for each supported backend
VariantOf(n) ==
  CASE n = Name_e2b -> "E2BProvider"
    [] n = Name_vercel -> "VercelProvider"
    [] n = Name_daytona -> "DaytonaProvider"
    [] n = Name_modal -> "ModalProvider"
    [] n = Name_compute -> "ComputeProvider"

RequiredCredentials(n) ==
  CASE n = Name_e2b -> {{"E2B_API_KEY"}}
    [] n = Name_vercel ->
         {{"VERCEL_OIDC_TOKEN"},
          {"VERCEL_TOKEN", "VERCEL_TEAM_ID", "VERCEL_PROJECT_ID"}}
    [] n = Name_daytona -> {{"DAYTONA_API_KEY"}}
    [] n = Name_modal -> {{"MODAL_TOKEN_ID", "MODAL_TOKEN_SECRET"}}
    [] n = Name_compute -> {{"COMPUTESDK_API_KEY"}}

\* C31: isProviderAvailable(name) returns true exactly when name is a
\* supported backend (up to letter case) whose required credentials are
\* present in the environment (e2b: E2B_API_KEY), false for every other
\* name; the call constructs no provider and changes no provider or
\* manager state
C31_AvailabilityIsPure ==
  /\ [](ret.op = "isProviderAvailable" =>
          LET names == {SupportedProviders[i] :
                          i \in 1..Len(SupportedProviders)}
              present(v) == ret.env[v] \notin {NoName, << >>}
          IN /\ ret.out <=>
                  \E n \in names :
                    /\ SameIgnoringCase(ret.provider, n)
                    /\ \E alt \in RequiredCredentials(n) :
                         \A v \in alt : present(v)
             /\ ret.built = "none")
  /\ [][ret'.op = "isProviderAvailable" =>
          /\ ret'.provider \in AvailabilityArgs
          /\ UNCHANGED <<kind, sandbox, sandboxInfo, workingDir,
                         existingFiles, remote, nextSid, destroyCalls,
                         autoRestartVite, last, sandboxes, activeSandboxId,
                         now, task, mlast, statusCheck, remoteFs, tree,
                         activeSandboxProvider, request, pending>>]_vars

\* isProviderAvailable('E2B') is true with only E2B_API_KEY set
C31_Witness ==
  /\ ret.op = "isProviderAvailable"
  /\ ret.provider = <<"E", "2", "B">>
  /\ ret.out
  /\ \A v \in EnvVars : (ret.env[v] # NoName) <=> (v = "E2B_API_KEY")

(* ----------------------- interleaving properties ---------------------- *)
\* C32: in every reachable manager state the active sandbox id is null or
\* the key of an entry of the registry
C32_ActivePointerNeverStale ==
  activeSandboxId = NoId \/ \E n \in 1..Len(sandboxes) :
                              sandboxes[n].sandboxId = activeSandboxId

\* a terminateSandbox of the active entry has returned after its session
\* was destroyed; the pointer names the entry that is left
C32_Witness ==
  /\ mlast = "terminateSandbox"
  /\ Len(sandboxes) = 1
  /\ activeSandboxId = sandboxes[1].sandboxId
  /\ ~sandboxes[1].term
  /\ \E s \in SessionIds : destroyCalls[s] > 0

(* ------------------------- createSandbox failure ---------------------- *)
\* C33: a createSandbox() that raised an error leaves the provider without
\* a session (isAlive() is false) and leaves no remote session that this
\* call allocated
C33_FailedCreateLeavesNothing ==
  [][\A p \in ProvUnderTest :
       (last'.op = "createSandbox" /\ last'.out = "error"
        /\ createSandbox(p)) =>
         /\ ~isAlive(p)'
         /\ remote' \ remote = {}]_vars

\* C34: between operations of a provider instance the session handle and
\* the cached SandboxInfo are set and cleared together: isAlive() is true
\* exactly when getSandboxInfo() is non-null
C34_HandleAndInfoTogether ==
  \A p \in ProvUnderTest :
    isAlive(p) <=> (getSandboxInfo(p) # NoSession)

(* ------------------------- route properties --------------------------- *)
\* C35: a create-ai-sandbox-v2 request that fails after its
\* provider.createSandbox() succeeded has, when the error response is
\* returned, had terminate() invoked on the remote session it created, and
\* that session's provider is referenced neither by the registry nor by
\* global.activeSandboxProvider
C35_FailedRequestTerminatesItsSession ==
  \A r \in Requests :
    (request[r].pc = "failed" /\ request[r].sid # NoSession) =>
      /\ destroyCalls[request[r].sid] > 0
      /\ \A n \in 1..Len(sandboxes) :
           sandboxes[n].provider # request[r].provider
      /\ activeSandboxProvider # request[r].provider

\* every request has returned its response
AllCompleted == \A r \in Requests : request[r].pc \in {"done", "failed"}

\* C36: once the create-ai-sandbox-v2 requests have completed, in any
\* interleaving of their awaits, the registry holds at most one sandbox,
\* that sandbox is the active one and its provider is
\* global.activeSandboxProvider, and every other session the requests
\* created has had terminate() invoked on it
C36_OneSandboxAfterRequests ==
  AllCompleted =>
    /\ Len(sandboxes) <= 1
    /\ Len(sandboxes) = 1 =>
         /\ activeSandboxId = sandboxes[1].sandboxId
         /\ activeSandboxProvider = sandboxes[1].provider
    /\ \A r \in Requests :
         (/\ request[r].sid # NoSession
          /\ \A n \in 1..Len(sandboxes) :
               sandboxes[n].sandboxId # SandboxIdOf(request[r].sid)) =>
           destroyCalls[request[r].sid] > 0

(* -------------------- operations across terminate --------------------- *)
\* C37: an operation (writeFile, installPackages, restartViteServer) that
\* resumes after terminate() completed on its instance either completes or
\* fails with 'No active sandbox'; it never fails with another error by
\* dereferencing the cleared session handle
C37_ResumeAfterTerminate ==
  pending.cleared => pending.out \in {"suspended", "ok", "noActive"}

(* ------------------- cleanup across its suspension -------------------- *)
\* C38: every entry a cleanup(maxAge) removes is, at the moment it is
\* removed, the entry the cleanup invoked terminate() through and older than
\* maxAge; an entry touched or re-registered while the cleanup was suspended
\* is not removed
C38_CleanupRemovesOnlyOld ==
  [][\A t \in AsyncSlot :
       (task[t].op = "cleanup" /\ task[t].pc = "await"
        /\ cleanupInnerFinish(t) /\ MapHas(sandboxes, task[t].id))
       => LET e == MapGet(sandboxes, task[t].id)
          IN e.term /\ now - e.lastAccessed > task[t].maxAge]_vars

(* ------------------------ SandboxInfo.provider ------------------------ *)
\* C39: the SandboxInfo createSandbox() returns carries the provider name the
\* factory selected: 'compute' for an instance built for 'compute', 'vercel'
\* for 'vercel', 'daytona' for 'daytona'
C39_InfoProviderMatchesFactory ==
  (ret.op = "createSandbox" /\ ret.ok
   /\ ret.selected \in {Name_compute, Name_vercel, Name_daytona})
  => ret.info = ret.selected

====
